---- MODULE Spec2Model ----
(***************************************************************************)
(* Animus log processor (animus_cli/log_processor.py): the level           *)
(* normaliser, the event aggregator, the statistics summariser and the     *)
(* text formatter, as operators over Python values, and the calls of them  *)
(* as actions.                                                             *)
(*                                                                         *)
(* Python values are tagged records: None, a str, an int; a dictionary key *)
(* that is missing is the value Absent.  Text is TLA+ strings, taken apart *)
(* with Head/Tail/SubSeq exactly as the code's str methods take it apart.  *)
(***************************************************************************)
EXTENDS Integers, Sequences, FiniteSets, TLC

VARIABLES
    pc,                \* where the modelled call is: "call", "returned", "raised",
                       \* for the pipeline "processed", "formatted", and for
                       \* process_log_file "open", "not found", "load failed", for the
                       \* repeated pipeline "processed again", "formatted again", for
                       \* an LLMManager "created" and then the name of the last call
    level,             \* _normalize_level_name: the argument
    level_name,        \* _normalize_level_name: the value returned
    level_name_again,  \* _normalize_level_name: the value returned for level_name
    events,            \* _aggregate_events: the batch (list of event dictionaries)
    aggregated_events, \* _aggregate_events: the list returned
    summarized_events, \* _generate_event_summary: the batch (all_events)
    event_summary,     \* _generate_event_summary: the dictionary returned
    log_data,          \* process_logs: the collector's dictionary
    processed_data,    \* process_logs: the dictionary returned
    output_lines,      \* format_for_llm: the lines appended
    formatted_text,    \* format_for_llm: the text returned
    input_file,        \* process_log_file: the file the path names
    verbose,           \* LogProcessor: self.verbose
    processed_again,   \* process_logs: the dictionary a second call on log_data returns
    formatted_again,   \* format_for_llm: the text a second call on processed_data returns
    context_size,      \* LLMManager: self.context_size
    query,             \* format_log_prompt, query_logs: the user's question
    prompt_log_data,   \* format_log_prompt, query_logs: the log_data argument
    use_reduced_events, \* format_log_prompt: the argument
    formatted_event_strings, \* format_log_prompt: the local at the return
    max_event_chars,   \* format_log_prompt: the local at the return
    current_event_chars, \* format_log_prompt: the local at the return
    events_omitted,    \* format_log_prompt: the local at the return
    final_prompt,      \* format_log_prompt: the prompt returned
    model_path,        \* LLMManager: self.model_path, "" for None
    llm,               \* LLMManager: self.llm
    model_loaded,      \* LLMManager: self._model_loaded
    models_created,    \* the Llama objects the constructor has returned
    raised,            \* the class of the exception the last call raised, "" for none
    returned,          \* the value the last call returned, as text
    generate_calls,    \* query_logs: the calls of generate_response it made
    files,             \* the log files on disk, by name: what each holds and its age
    running,           \* AnimusCLI: self.running
    log_file,          \* AnimusCLI: self.log_file
    logs_loaded,       \* AnimusCLI: self.logs_loaded
    cli_log_data,      \* AnimusCLI: self.log_data
    self_logs,         \* AnimusCLI: self.logs
    auto_collect,      \* AnimusCLI: self.auto_collect
    force_collect,     \* AnimusCLI: self.force_collect
    in_qa_mode,        \* AnimusCLI: self.in_qa_mode
    qa_context,        \* AnimusCLI: self.qa_context
    console,           \* command_loop: what the last input() gave
    called             \* command_loop: the handler the last iteration called

vars == <<pc, level, level_name, level_name_again, events, aggregated_events,
          summarized_events, event_summary, log_data, processed_data, output_lines,
          formatted_text, input_file, verbose, processed_again, formatted_again,
          context_size, query, prompt_log_data, use_reduced_events,
          formatted_event_strings, max_event_chars,
          current_event_chars, events_omitted, final_prompt,
          model_path, llm, model_loaded, models_created, raised, returned, generate_calls,
          files, running, log_file, logs_loaded, cli_log_data, self_logs,
          auto_collect, force_collect, in_qa_mode, qa_context, console, called>>

\* the variables of each call, which the other calls leave alone
normalize_vars == <<level, level_name, level_name_again>>
aggregate_vars == <<events, aggregated_events>>
summary_vars == <<summarized_events, event_summary>>
pipeline_vars == <<log_data, processed_data, output_lines, formatted_text>>
file_vars == <<input_file>>
repeat_vars == <<verbose, processed_again, formatted_again>>
manager_vars == <<model_path, llm, model_loaded, models_created, raised, returned, generate_calls>>
prompt_vars == <<context_size, query, prompt_log_data, use_reduced_events,
          formatted_event_strings, max_event_chars,
                 current_event_chars, events_omitted, final_prompt>>
cli_vars == <<files, running, log_file, logs_loaded, cli_log_data, self_logs,
              auto_collect, force_collect, in_qa_mode, qa_context, console, called>>

---------------------------------------------------------------------------
(* Python values *)

None == [t |-> "none"]
Absent == [t |-> "absent"]
StrVal(s) == [t |-> "str", s |-> s]
IntVal(n) == [t |-> "int", n |-> n]

IsStr(v) == v.t = "str"

\* dict.get(key, default) and dict.get(key)
Get(d, k, default) == IF d[k] = Absent THEN default ELSE d[k]
GetOrNone(d, k) == Get(d, k, None)

\* a list, and the test for a dict: a dict is a record of its possible keys
\* tagged "dict", a key it does not hold being Absent
ListVal(items) == [t |-> "list", items |-> items]
IsDict(v) == v.t = "dict"

\* Python truthiness of None, str, int, list and dict
Truthy(v) ==
    CASE v.t = "none" -> FALSE
      [] v.t = "absent" -> FALSE
      [] v.t = "str" -> v.s # ""
      [] v.t = "int" -> v.n # 0
      [] v.t = "list" -> v.items # <<>>
      [] v.t = "dict" -> \E k \in DOMAIN v \ {"t"} : v[k] # Absent

\* str(v), also what an f-string does to v
PyStr(v) ==
    CASE v.t = "str" -> v.s
      [] v.t = "int" -> ToString(v.n)
      [] OTHER -> "None"

---------------------------------------------------------------------------
(* str methods *)

UpperCase == "ABCDEFGHIJKLMNOPQRSTUVWXYZ"
LowerCase == "abcdefghijklmnopqrstuvwxyz"

RECURSIVE IndexIn(_, _, _)
\* position of character c in text s at or after i, 0 when there is none
IndexIn(c, s, i) ==
    IF i > Len(s) THEN 0
    ELSE IF SubSeq(s, i, i) = c THEN i
    ELSE IndexIn(c, s, i + 1)

LowerChar(c) ==
    LET i == IndexIn(c, UpperCase, 1)
    IN IF i = 0 THEN c ELSE SubSeq(LowerCase, i, i)

RECURSIVE StrLower(_)
StrLower(s) == IF s = "" THEN "" ELSE LowerChar(Head(s)) \o StrLower(Tail(s))

Whitespace == {" ", "\t", "\n", "\r", "\f"}

RECURSIVE LStrip(_)
LStrip(s) == IF s # "" /\ Head(s) \in Whitespace THEN LStrip(Tail(s)) ELSE s

RECURSIVE RStrip(_)
RStrip(s) ==
    IF s # "" /\ SubSeq(s, Len(s), Len(s)) \in Whitespace
    THEN RStrip(SubSeq(s, 1, Len(s) - 1))
    ELSE s

StrStrip(s) == RStrip(LStrip(s))

Digits == "0123456789"

\* printable ASCII in code-point order (the grave accent, which a TLA+ string
\* cannot hold, left out): str comparison goes by code point
Ascii ==
    " !\"#$%&'()*+,-./0123456789:;<=>?@ABCDEFGHIJKLMNOPQRSTUVWXYZ[\\]^_abcdefghijklmnopqrstuvwxyz{|}~"

CharCode(c) == IndexIn(c, Ascii, 1)

RECURSIVE StrLess(_, _)
\* a < b for two str
StrLess(a, b) ==
    IF b = "" THEN FALSE
    ELSE IF a = "" THEN TRUE
    ELSE IF Head(a) = Head(b) THEN StrLess(Tail(a), Tail(b))
    ELSE CharCode(Head(a)) < CharCode(Head(b))

StrContains(s, c) == IndexIn(c, s, 1) # 0

RECURSIVE StrReplaceChar(_, _, _)
\* s.replace(c, r) for a one-character c
StrReplaceChar(s, c, r) ==
    IF s = "" THEN ""
    ELSE (IF Head(s) = c THEN r ELSE Head(s)) \o StrReplaceChar(Tail(s), c, r)

\* s.split(c, 1) as the pair (before the first c, after it); s holds c
SplitFirst(s, c) ==
    LET i == IndexIn(c, s, 1)
    IN <<SubSeq(s, 1, i - 1), SubSeq(s, i + 1, Len(s))>>

\* s.split(c)[0]
BeforeFirst(s, c) ==
    LET i == IndexIn(c, s, 1)
    IN IF i = 0 THEN s ELSE SubSeq(s, 1, i - 1)

\* s[:n]
Prefix(s, n) == IF Len(s) <= n THEN s ELSE SubSeq(s, 1, n)

\* s[i:j] by 1-based inclusive positions, "" past the end
Slice(s, i, j) == IF i > j \/ i > Len(s) THEN "" ELSE SubSeq(s, i, IF j > Len(s) THEN Len(s) ELSE j)

RECURSIVE ParseNat(_)
\* the number a run of decimal digits denotes, -1 when s is empty or holds another character
ParseNat(s) ==
    IF s = "" THEN -1
    ELSE LET d == IndexIn(SubSeq(s, Len(s), Len(s)), Digits, 1) - 1
         IN IF d < 0 THEN -1
            ELSE IF Len(s) = 1 THEN d
            ELSE LET r == ParseNat(SubSeq(s, 1, Len(s) - 1))
                 IN IF r < 0 THEN -1 ELSE r * 10 + d

---------------------------------------------------------------------------
(* LogProcessor._normalize_level_name *)

CanonicalLevels == {"Critical", "Error", "Warning", "Information", "Verbose"}

\* a faulty variant: the text is lowered but not stripped
NormalizeLevelNameUnstripped(lv) ==
    LET level_str == IF Truthy(lv) THEN StrLower(PyStr(lv)) ELSE "information"
    IN CASE level_str = "critical" -> "Critical"
         [] level_str = "error" -> "Error"
         [] level_str = "warning" -> "Warning"
         [] level_str = "verbose" -> "Verbose"
         [] level_str = "1" -> "Critical"
         [] level_str = "2" -> "Error"
         [] level_str = "3" -> "Warning"
         [] level_str = "5" -> "Verbose"
         [] OTHER -> "Information"

\* a faulty variant: the text is stripped but not lowered
NormalizeLevelNameUnlowered(lv) ==
    LET level_str == IF Truthy(lv) THEN StrStrip(PyStr(lv)) ELSE "information"
    IN CASE level_str = "critical" -> "Critical"
         [] level_str = "error" -> "Error"
         [] level_str = "warning" -> "Warning"
         [] level_str = "verbose" -> "Verbose"
         [] level_str = "1" -> "Critical"
         [] level_str = "2" -> "Error"
         [] level_str = "3" -> "Warning"
         [] level_str = "5" -> "Verbose"
         [] OTHER -> "Information"

NormalizeLevelName(lv) ==
    LET level_str == IF Truthy(lv) THEN StrStrip(StrLower(PyStr(lv))) ELSE "information"
    IN CASE level_str = "critical" -> "Critical"
         [] level_str = "error" -> "Error"
         [] level_str = "warning" -> "Warning"
         [] level_str = "information" -> "Information"
         [] level_str = "verbose" -> "Verbose"
         [] level_str = "1" -> "Critical"
         [] level_str = "2" -> "Error"
         [] level_str = "3" -> "Warning"
         [] level_str = "4" -> "Information"
         [] level_str = "5" -> "Verbose"
         [] OTHER -> "Information"

---------------------------------------------------------------------------
(* datetime: fromisoformat, comparison, isoformat                          *)
(* The grammar is the one every supported Python accepts:                  *)
(*   YYYY-MM-DD [ sep HH:MM[:SS[.fff[fff]]] [(+|-)HH:MM] ]                 *)
(* A datetime is a record: aware (has an offset), date and time as the     *)
(* text isoformat prints, us (microseconds), off (offset in minutes), and  *)
(* days (since 1970-01-01) and mins, secs for comparison.                  *)

NotADate == [ok |-> FALSE]

IsLeap(y) == (y % 4 = 0 /\ y % 100 # 0) \/ y % 400 = 0

DaysInMonth(y, m) ==
    IF m = 2 THEN (IF IsLeap(y) THEN 29 ELSE 28)
    ELSE IF m \in {4, 6, 9, 11} THEN 30 ELSE 31

\* days from 1970-01-01 to the civil date y-m-d (proleptic Gregorian)
DaysFromCivil(y, m, d) ==
    LET yy == IF m <= 2 THEN y - 1 ELSE y
        era == yy \div 400
        yoe == yy - era * 400
        mp == IF m > 2 THEN m - 3 ELSE m + 9
        doy == (153 * mp + 2) \div 5 + d - 1
        doe == yoe * 365 + yoe \div 4 - yoe \div 100 + doy
    IN era * 146097 + doe - 719468

\* the date part "YYYY-MM-DD": [ok, y, m, d]
ParseDate(s) ==
    LET y == ParseNat(Slice(s, 1, 4))
        m == ParseNat(Slice(s, 6, 7))
        d == ParseNat(Slice(s, 9, 10))
    IN IF /\ Len(s) = 10
          /\ Slice(s, 5, 5) = "-" /\ Slice(s, 8, 8) = "-"
          /\ y >= 1 /\ m \in 1..12 /\ d >= 1 /\ d <= DaysInMonth(y, m)
       THEN [ok |-> TRUE, y |-> y, m |-> m, d |-> d]
       ELSE [ok |-> FALSE]

\* the offset part "+HH:MM" or "-HH:MM": minutes east of UTC, or "bad"
ParseOffset(s) ==
    LET hh == ParseNat(Slice(s, 2, 3))
        mm == ParseNat(Slice(s, 5, 6))
    IN IF /\ Len(s) = 6
          /\ Slice(s, 1, 1) \in {"+", "-"} /\ Slice(s, 4, 4) = ":"
          /\ hh \in 0..23 /\ mm \in 0..59
       THEN [ok |-> TRUE, off |-> (IF Slice(s, 1, 1) = "-" THEN -1 ELSE 1) * (hh * 60 + mm)]
       ELSE [ok |-> FALSE]

\* the time part "HH:MM[:SS[.fff[fff]]]" without its offset: [ok, hh, mm, ss, us]
ParseTime(s) ==
    LET hh == ParseNat(Slice(s, 1, 2))
        mm == ParseNat(Slice(s, 4, 5))
        ss == IF Len(s) = 5 THEN 0 ELSE ParseNat(Slice(s, 7, 8))
        frac == Slice(s, 10, Len(s))
        us == IF Len(s) <= 8 THEN 0
              ELSE IF Len(frac) = 3 THEN (IF ParseNat(frac) < 0 THEN -1 ELSE ParseNat(frac) * 1000)
              ELSE IF Len(frac) = 6 THEN ParseNat(frac)
              ELSE -1
    IN IF /\ Len(s) \in {5, 8, 12, 15}
          /\ Slice(s, 3, 3) = ":"
          /\ Len(s) > 5 => Slice(s, 6, 6) = ":"
          /\ Len(s) > 8 => Slice(s, 9, 9) = "."
          /\ hh \in 0..23 /\ mm \in 0..59 /\ ss \in 0..59 /\ us >= 0
       THEN [ok |-> TRUE, hh |-> hh, mm |-> mm, ss |-> ss, us |-> us]
       ELSE [ok |-> FALSE]

\* position of the sign that starts the offset in a time part, 0 when it has none
OffsetStart(s) ==
    LET p == IndexIn("+", s, 1)
        q == IndexIn("-", s, 1)
    IN IF p # 0 /\ (q = 0 \/ p < q) THEN p ELSE q

Pad2(n) == IF n < 10 THEN "0" \o ToString(n) ELSE ToString(n)

RECURSIVE PadLeft(_, _)
PadLeft(s, n) == IF Len(s) >= n THEN s ELSE PadLeft("0" \o s, n)

\* datetime.fromisoformat(s): the datetime, or NotADate where it raises ValueError
FromIsoFormat(s) ==
    LET dt == ParseDate(Slice(s, 1, 10))
        rest == Slice(s, 12, Len(s))
        o == OffsetStart(rest)
        tpart == IF o = 0 THEN rest ELSE SubSeq(rest, 1, o - 1)
        opart == IF o = 0 THEN "" ELSE SubSeq(rest, o, Len(rest))
        tm == IF Len(s) = 10 THEN [ok |-> TRUE, hh |-> 0, mm |-> 0, ss |-> 0, us |-> 0]
              ELSE ParseTime(tpart)
        tz == IF opart = "" THEN [ok |-> TRUE, off |-> 0] ELSE ParseOffset(opart)
    IN IF Len(s) < 10 \/ Len(s) = 11 \/ ~dt.ok \/ ~tm.ok \/ ~tz.ok THEN NotADate
       ELSE [ok |-> TRUE,
             aware |-> opart # "",
             date |-> Slice(s, 1, 10),
             time |-> Pad2(tm.hh) \o ":" \o Pad2(tm.mm) \o ":" \o Pad2(tm.ss),
             us |-> tm.us,
             off |-> tz.off,
             mins |-> DaysFromCivil(dt.y, dt.m, dt.d) * 1440 + tm.hh * 60 + tm.mm - tz.off,
             secs |-> tm.ss]

\* a < b for two datetimes that are both naive or both aware
DateTimeLess(a, b) ==
    \/ a.mins < b.mins
    \/ a.mins = b.mins /\ a.secs < b.secs
    \/ a.mins = b.mins /\ a.secs = b.secs /\ a.us < b.us

\* the offset as isoformat prints it
OffsetText(off) ==
    LET a == IF off < 0 THEN -off ELSE off
    IN (IF off < 0 THEN "-" ELSE "+") \o Pad2(a \div 60) \o ":" \o Pad2(a % 60)

\* datetime.isoformat()
IsoFormat(dt) ==
    dt.date \o "T" \o dt.time
    \o (IF dt.us # 0 THEN "." \o PadLeft(ToString(dt.us), 6) ELSE "")
    \o (IF dt.aware THEN OffsetText(dt.off) ELSE "")

---------------------------------------------------------------------------
(* Event dictionaries *)

\* an event dictionary: every key the code reads, Absent when the key is missing
Event(log_name, provider, event_id, lv, time_created, message) ==
    [LogName |-> log_name, ProviderName |-> provider, EventID |-> event_id,
     Level |-> lv, TimeCreated |-> time_created, Message |-> message]

\* the events batches are made of: the four fields of the key present, missing
\* and spelled differently, and every kind of TimeCreated (Z, offset, naive,
\* fraction, not ISO, not a str, null, missing)
DiskErrorZ ==
    Event(StrVal("System"), StrVal("disk"), IntVal(7), StrVal("Error"),
          StrVal("2024-03-01T10:00:00Z"), StrVal("Bad block at 0x10"))
DiskErrorFraction ==
    Event(StrVal("System"), StrVal("disk"), IntVal(7), StrVal(" error "),
          StrVal("2024-03-01T09:00:00.1234567Z"), StrVal("Bad block at 0x20"))
DiskErrorNaive ==
    Event(StrVal("System"), StrVal("disk"), IntVal(7), StrVal("2"),
          StrVal("2024-03-01T11:00:00"), Absent)
DiskErrorNotATime ==
    Event(StrVal("System"), StrVal("disk"), IntVal(7), StrVal("ERROR"),
          StrVal("not a time"), None)
DiskErrorOffset ==
    Event(StrVal("System"), StrVal("disk"), IntVal(7), IntVal(2),
          StrVal("2024-03-01T12:00:00+02:00"), StrVal("Bad block at 0x30"))
DiskWarning ==
    Event(StrVal("System"), StrVal("disk"), IntVal(7), StrVal("Warning"),
          StrVal("2024-03-01T10:00:00.25+01:00"), StrVal("Retry"))
AppWarning ==
    Event(StrVal("Application"), StrVal("App"), IntVal(1000), StrVal("warning"),
          StrVal("2024-03-01T12:00:00+01:00"), StrVal("Slow response"))
AppWarningBadFraction ==
    Event(StrVal("Application"), StrVal("App"), IntVal(1000), StrVal("3"),
          StrVal("2024-03-01T11:30:00.5-01:00"), StrVal("Slow"))
EmptyEvent ==
    Event(Absent, Absent, Absent, Absent, Absent, Absent)
UnknownEvent ==
    Event(StrVal("Unknown"), StrVal("Unknown"), IntVal(0), StrVal("bogus"),
          IntVal(1709287200), StrVal("Heartbeat"))

EventPool ==
    {DiskErrorZ, DiskErrorFraction, DiskErrorNaive, DiskErrorNotATime, DiskErrorOffset,
     DiskWarning, AppWarning, AppWarningBadFraction, EmptyEvent, UnknownEvent}

---------------------------------------------------------------------------
(* LogProcessor._aggregate_events *)

\* the grouping key, an f-string
GroupKey(event) ==
    LET log_name == Get(event, "LogName", StrVal("Unknown"))
        provider == Get(event, "ProviderName", StrVal("Unknown"))
        event_id == Get(event, "EventID", IntVal(0))
        lv == NormalizeLevelName(Get(event, "Level", StrVal("Information")))
    IN PyStr(log_name) \o "|" \o PyStr(provider) \o "|" \o PyStr(event_id) \o "|" \o lv

\* GroupKey of every event of the pool, computed once
KeyOf == [event \in EventPool |-> GroupKey(event)]

RECURSIVE KeyIndex(_, _, _)
\* position of the group with this key, 0 when the key is new
KeyIndex(groups, key, i) ==
    IF i > Len(groups) THEN 0
    ELSE IF groups[i].key = key THEN i
    ELSE KeyIndex(groups, key, i + 1)

RECURSIVE EventGroups(_, _)
\* event_groups after the first n events: the keys in the order a dict keeps
\* them (first insertion), each with the list of its events
EventGroups(evs, n) ==
    IF n = 0 THEN <<>>
    ELSE LET groups == EventGroups(evs, n - 1)
             key == KeyOf[evs[n]]
             i == KeyIndex(groups, key, 1)
         IN IF i = 0
            THEN Append(groups, [key |-> key, events |-> <<evs[n]>>])
            ELSE [groups EXCEPT ![i].events = Append(@, evs[n])]

\* the text handed to fromisoformat for a str TimeCreated
TimestampText(time_created) ==
    LET ts_str == StrReplaceChar(time_created, "Z", "+00:00")
    IN IF StrContains(ts_str, ".")
       THEN LET parts == SplitFirst(ts_str, ".")
                ts_base == parts[1]
                ts_frac == Prefix(BeforeFirst(parts[2], "+") \o "000000", 6)
            IN ts_base \o "." \o ts_frac \o "+00:00"
       ELSE ts_str

\* one pass of the try block: the datetime appended, or NotADate when the
\* value is None (skipped), not a str (AttributeError) or not ISO (ValueError)
ParseTimeCreated(event) ==
    LET ts_str == GetOrNone(event, "TimeCreated")
    IN IF ts_str = None \/ ~IsStr(ts_str) THEN NotADate
       ELSE FromIsoFormat(TimestampText(ts_str.s))

\* ParseTimeCreated of every event of the pool, computed once
TimestampOf == [event \in EventPool |-> ParseTimeCreated(event)]

RECURSIVE GroupTimestamps(_, _)
\* timestamps of a group before the sort, in the order of its events
GroupTimestamps(group_events, n) ==
    IF n = 0 THEN <<>>
    ELSE LET ts == GroupTimestamps(group_events, n - 1)
             dt == TimestampOf[group_events[n]]
         IN IF dt.ok THEN Append(ts, dt) ELSE ts

\* list.sort() of datetimes raises TypeError when it compares a naive with an
\* aware one, which any sort of a list holding both does
SortRaises(timestamps) ==
    \E i, j \in 1..Len(timestamps) : timestamps[i].aware # timestamps[j].aware

RECURSIVE InsertAscending(_, _, _)
\* x put into the ascending list after every element not greater than it
InsertAscending(sorted, x, i) ==
    IF i > Len(sorted) THEN Append(sorted, x)
    ELSE IF DateTimeLess(x, sorted[i])
         THEN SubSeq(sorted, 1, i - 1) \o <<x>> \o SubSeq(sorted, i, Len(sorted))
         ELSE InsertAscending(sorted, x, i + 1)

RECURSIVE SortTimestamps(_, _)
\* timestamps.sort(): ascending and stable
SortTimestamps(timestamps, n) ==
    IF n = 0 THEN <<>>
    ELSE InsertAscending(SortTimestamps(timestamps, n - 1), timestamps[n], 1)

\* timestamps[-3:]
LastThree(timestamps) ==
    IF Len(timestamps) <= 3 THEN timestamps
    ELSE SubSeq(timestamps, Len(timestamps) - 2, Len(timestamps))

\* a faulty variant: the last event stands for the group
LastEvent(group_events) == group_events[Len(group_events)]

\* template_event = group_events[0]: the first event stands for the group
TemplateEvent(group_events) == group_events[1]

\* a faulty variant: only the events whose timestamp parsed are counted
ParsedCount(group_events) == Len(GroupTimestamps(group_events, Len(group_events)))

\* "OccurrenceCount": len(group_events)
OccurrenceCount(group_events) == Len(group_events)

\* a faulty variant: the timestamps stay in the order of the events
UnsortedTimestamps(group_events) == GroupTimestamps(group_events, Len(group_events))

\* the sorted timestamps of one group
Timestamps(group_events) ==
    SortTimestamps(GroupTimestamps(group_events, Len(group_events)),
                   Len(GroupTimestamps(group_events, Len(group_events))))

\* the aggregated_event dictionary of one group
AggregatedEvent(group_events) ==
    LET template_event == TemplateEvent(group_events)
        timestamps == Timestamps(group_events)
        examples == LastThree(timestamps)
    IN [LogName |-> GetOrNone(template_event, "LogName"),
        Level |-> NormalizeLevelName(GetOrNone(template_event, "Level")),
        EventID |-> GetOrNone(template_event, "EventID"),
        ProviderName |-> GetOrNone(template_event, "ProviderName"),
        Message |-> Get(template_event, "Message", StrVal("No message")),
        OccurrenceCount |-> OccurrenceCount(group_events),
        FirstTimestamp |-> IF timestamps # <<>> THEN StrVal(IsoFormat(timestamps[1])) ELSE None,
        LastTimestamp |-> IF timestamps # <<>> THEN StrVal(IsoFormat(timestamps[Len(timestamps)])) ELSE None,
        ExampleTimestamps |-> [k \in 1..Len(examples) |-> IsoFormat(examples[k])]]

\* e["LastTimestamp"] or ""
LastTimestampOrEmpty(e) == IF Truthy(e.LastTimestamp) THEN e.LastTimestamp.s ELSE ""

\* key(a) < key(b) for the sort key (-OccurrenceCount, LastTimestamp or "")
SortKeyLess(a, b) ==
    \/ -a.OccurrenceCount < -b.OccurrenceCount
    \/ /\ a.OccurrenceCount = b.OccurrenceCount
       /\ StrLess(LastTimestampOrEmpty(a), LastTimestampOrEmpty(b))

RECURSIVE InsertDescending(_, _, _)
\* x put into the descending list after every element whose key is not less
InsertDescending(sorted, x, i) ==
    IF i > Len(sorted) THEN Append(sorted, x)
    ELSE IF SortKeyLess(sorted[i], x)
         THEN SubSeq(sorted, 1, i - 1) \o <<x>> \o SubSeq(sorted, i, Len(sorted))
         ELSE InsertDescending(sorted, x, i + 1)

RECURSIVE SortAggregated(_, _)
\* aggregated_events.sort(key=..., reverse=True): descending by key and stable
SortAggregated(aggregated, n) ==
    IF n = 0 THEN <<>>
    ELSE InsertDescending(SortAggregated(aggregated, n - 1), aggregated[n], 1)

RECURSIVE AggregatedList(_, _)
\* aggregated_events before the final sort: one dictionary per group, in the
\* order of event_groups
AggregatedList(groups, n) ==
    IF n = 0 THEN <<>>
    ELSE Append(AggregatedList(groups, n - 1), AggregatedEvent(groups[n].events))

\* whether _aggregate_events(events) raises: a group's timestamps.sort()
\* raises TypeError, which nothing catches
AggregateRaised(evs) ==
    \E i \in 1..Len(EventGroups(evs, Len(evs))) :
        SortRaises(GroupTimestamps(EventGroups(evs, Len(evs))[i].events,
                                   Len(EventGroups(evs, Len(evs))[i].events)))

\* the list _aggregate_events(events) returns when it does not raise
AggregateEvents(evs) ==
    SortAggregated(AggregatedList(EventGroups(evs, Len(evs)), Len(EventGroups(evs, Len(evs)))),
                   Len(EventGroups(evs, Len(evs))))

---------------------------------------------------------------------------
(* LogProcessor._generate_event_summary *)
(* A dict of counts is the list of its (key, count) items in insertion     *)
(* order, which is the order items() yields them in. The loop over the     *)
(* events is stated by what it leaves in each dict.                        *)

\* position of the first item with this key at or after i, 0 when there is
\* none
ItemIndex(items, key, i) ==
    LET found == {k \in i..Len(items) : items[k].key = key}
    IN IF found = {} THEN 0 ELSE CHOOSE k \in found : \A m \in found : k <= m

\* the positions at which a key of the list occurs for the first time, and
\* the j-th of them
FirstPositions(keys) == {k \in 1..Len(keys) : \A m \in 1..(k - 1) : keys[m] # keys[k]}
NthFirst(keys, j) ==
    CHOOSE k \in FirstPositions(keys) : Cardinality({m \in FirstPositions(keys) : m < k}) = j - 1

\* the items of a defaultdict(int) after counts[key] += 1 for every key of
\* the list in turn: the keys in the order they were first counted in, each
\* with the number of times it occurs
CountItems(keys) ==
    [j \in 1..Cardinality(FirstPositions(keys)) |->
        [key |-> keys[NthFirst(keys, j)],
         count |-> Cardinality({k \in 1..Len(keys) : keys[k] = keys[NthFirst(keys, j)]})]]

\* a faulty variant: the log of the latest event with the key is recorded
LastLogItems(keys, logs) ==
    [j \in 1..Cardinality(FirstPositions(keys)) |->
        [key |-> keys[NthFirst(keys, j)],
         log |-> logs[CHOOSE k \in 1..Len(keys) :
                         /\ keys[k] = keys[NthFirst(keys, j)]
                         /\ \A m \in (k + 1)..Len(keys) : keys[m] # keys[k]]]]

\* the items of a log map after "if key not in log_map: log_map[key] =
\* log_name" for every key of the list in turn, logs[k] being the log name
\* that comes with keys[k]: every key with the log it was first met with
FirstLogItems(keys, logs) ==
    [j \in 1..Cardinality(FirstPositions(keys)) |->
        [key |-> keys[NthFirst(keys, j)], log |-> logs[NthFirst(keys, j)]]]

\* log_map.get(key, "Unknown")
LogOf(log_map, key) ==
    LET i == ItemIndex(log_map, key, 1)
    IN IF i = 0 THEN StrVal("Unknown") ELSE log_map[i].log

\* event.get("LogName", "Unknown") of every event of the list
LogNames(some_events) ==
    [k \in 1..Len(some_events) |-> Get(some_events[k], "LogName", StrVal("Unknown"))]

\* summary["ByLogType"]
ByLogType(all_events) == CountItems(LogNames(all_events))

\* a faulty variant: the levels are counted as they are written
ByRawLevel(all_events) ==
    CountItems([k \in 1..Len(all_events) |->
                   PyStr(Get(all_events[k], "Level", StrVal("Information")))])

\* summary["ByLevel"]
ByLevel(all_events) ==
    CountItems([k \in 1..Len(all_events) |->
                   NormalizeLevelName(Get(all_events[k], "Level", StrVal("Information")))])

\* the events that pass "if provider != 'Unknown'"
WithProvider(all_events) ==
    SelectSeq(all_events,
              LAMBDA event : Get(event, "ProviderName", StrVal("Unknown")) # StrVal("Unknown"))

\* provider of every event of the list
Providers(some_events) ==
    [k \in 1..Len(some_events) |-> Get(some_events[k], "ProviderName", StrVal("Unknown"))]

\* source_counts
SourceCounts(all_events) == CountItems(Providers(WithProvider(all_events)))

\* source_log_map
SourceLogMap(all_events) ==
    FirstLogItems(Providers(WithProvider(all_events)), LogNames(WithProvider(all_events)))

\* the events that pass "if event_id != 0"
WithEventId(all_events) ==
    SelectSeq(all_events, LAMBDA event : Get(event, "EventID", IntVal(0)) # IntVal(0))

\* str(event_id) of every event of the list
EventIdKeys(some_events) ==
    [k \in 1..Len(some_events) |-> PyStr(Get(some_events[k], "EventID", IntVal(0)))]

\* a faulty variant: EventID 0 is counted like every other id
EventIdCountsWithZero(all_events) == CountItems(EventIdKeys(all_events))

\* event_id_counts
EventIdCounts(all_events) == CountItems(EventIdKeys(WithEventId(all_events)))

\* event_id_log_map
EventIdLogMap(all_events) ==
    FirstLogItems(EventIdKeys(WithEventId(all_events)), LogNames(WithEventId(all_events)))

\* x put into the list, which descends by count, after every item at or
\* after i whose count is not less
InsertByCount(sorted, x, i) ==
    LET less == {k \in i..Len(sorted) : sorted[k].count < x.count}
        at == IF less = {} THEN Len(sorted) + 1 ELSE CHOOSE k \in less : \A m \in less : k <= m
    IN SubSeq(sorted, 1, at - 1) \o <<x>> \o SubSeq(sorted, at, Len(sorted))

\* a faulty variant: the items stay in insertion order
Unsorted(items, n) == SubSeq(items, 1, n)

RECURSIVE SortedByCount(_, _)
\* sorted(counts.items(), key=lambda item: item[1], reverse=True): descending
\* and stable
SortedByCount(items, n) ==
    IF n = 0 THEN <<>>
    ELSE InsertByCount(SortedByCount(items, n - 1), items[n], 1)

\* the number of entries the two top lists keep
TopLimit == 5

\* a faulty variant: the first five items, repeated or not
TopUnfiltered(items) ==
    IF Len(items) <= TopLimit THEN SortedByCount(items, Len(items))
    ELSE SubSeq(SortedByCount(items, Len(items)), 1, TopLimit)

\* [item for item in top if count > 1][:5]
TopRepeated(items) ==
    LET repeated == SelectSeq(SortedByCount(items, Len(items)), LAMBDA item : item.count > 1)
    IN IF Len(repeated) <= TopLimit THEN repeated ELSE SubSeq(repeated, 1, TopLimit)

\* summary["TopSources"]
TopSources(all_events) ==
    LET top == TopRepeated(SourceCounts(all_events))
    IN [k \in 1..Len(top) |->
           [Source |-> top[k].key, Count |-> top[k].count,
            LogType |-> LogOf(SourceLogMap(all_events), top[k].key)]]

\* summary["TopEventIDs"]
TopEventIDs(all_events) ==
    LET top == TopRepeated(EventIdCounts(all_events))
    IN [k \in 1..Len(top) |->
           [EventID |-> top[k].key, Count |-> top[k].count,
            LogType |-> LogOf(EventIdLogMap(all_events), top[k].key)]]

\* the summary dictionary _generate_event_summary(all_events) returns
GenerateEventSummary(all_events) ==
    [TotalEvents |-> Len(all_events),
     ByLogType |-> ByLogType(all_events),
     ByLevel |-> ByLevel(all_events),
     TopSources |-> TopSources(all_events),
     TopEventIDs |-> TopEventIDs(all_events)]

---------------------------------------------------------------------------
(* LogProcessor._clean_text and LogProcessor._format_event *)

RECURSIVE WordEnd(_, _)
\* the last position of the run of non-whitespace that starts at position 1
WordEnd(s, i) ==
    IF i < Len(s) /\ SubSeq(s, i + 1, i + 1) \notin Whitespace THEN WordEnd(s, i + 1) ELSE i

RECURSIVE JoinSplit(_)
\* ' '.join(text.split())
JoinSplit(text) ==
    LET s == LStrip(text)
    IN IF s = "" THEN ""
       ELSE LET n == WordEnd(s, 1)
                rest == JoinSplit(SubSeq(s, n + 1, Len(s)))
            IN IF rest = "" THEN SubSeq(s, 1, n) ELSE SubSeq(s, 1, n) \o " " \o rest

\* _clean_text of None or a str; the four replace() calls remove characters
\* outside ASCII, which the texts of the model do not hold
CleanText(text) == IF ~Truthy(text) THEN text ELSE StrVal(JoinSplit(text.s))

RECURSIVE StrRemoveChar(_, _)
\* s.replace(c, "") for a one-character c
StrRemoveChar(s, c) ==
    IF s = "" THEN ""
    ELSE (IF Head(s) = c THEN "" ELSE Head(s)) \o StrRemoveChar(Tail(s), c)

\* a faulty variant: the "Time" line is written whatever the count is
FormatEventTimeOnly(event) ==
    LET event_id == Get(event, "EventID", StrVal("?"))
        source == Get(event, "ProviderName", StrVal("Unknown"))
        cleaned == CleanText(Get(event, "Message", StrVal("No message")))
        last_ts == IF Truthy(GetOrNone(event, "LastTimestamp"))
                   THEN CleanText(GetOrNone(event, "LastTimestamp")) ELSE None
        message == IF cleaned # None
                   THEN StrStrip(StrRemoveChar(StrReplaceChar(cleaned.s, "\n", " "), "\r"))
                   ELSE "No message provided"
    IN <<"[" \o event.Level \o "] EventID: " \o PyStr(event_id) \o " | Source: "
            \o PyStr(source) \o " | Count: " \o ToString(event.OccurrenceCount),
         "  Msg: " \o message>>
       \o (IF Truthy(last_ts) THEN <<"  Time: " \o last_ts.s>> ELSE <<>>)
       \o <<"">>

\* the lines _format_event(event, output_lines) appends for a dictionary made
\* by _aggregate_events, which holds every key: Level is a str and
\* OccurrenceCount an int, the other values may be None
FormatEvent(event) ==
    LET event_id == Get(event, "EventID", StrVal("?"))
        source == Get(event, "ProviderName", StrVal("Unknown"))
        lv == event.Level
        cleaned == CleanText(Get(event, "Message", StrVal("No message")))
        count == event.OccurrenceCount
        first_ts == IF Truthy(GetOrNone(event, "FirstTimestamp"))
                    THEN CleanText(GetOrNone(event, "FirstTimestamp")) ELSE None
        last_ts == IF Truthy(GetOrNone(event, "LastTimestamp"))
                   THEN CleanText(GetOrNone(event, "LastTimestamp")) ELSE None
        message == IF cleaned # None
                   THEN StrStrip(StrRemoveChar(StrReplaceChar(cleaned.s, "\n", " "), "\r"))
                   ELSE "No message provided"
    IN <<"[" \o lv \o "] EventID: " \o PyStr(event_id) \o " | Source: " \o PyStr(source)
            \o " | Count: " \o ToString(count),
         "  Msg: " \o message>>
       \o (IF count > 1 /\ Truthy(first_ts) /\ Truthy(last_ts)
           THEN <<"  First: " \o first_ts.s \o " | Last: " \o last_ts.s>>
           ELSE IF Truthy(last_ts) THEN <<"  Time: " \o last_ts.s>>
           ELSE <<>>)
       \o <<"">>

---------------------------------------------------------------------------
(* LogProcessor.process_logs and LogProcessor.format_for_llm *)

\* the dictionaries of the collector's output, by the keys the code reads
SystemInfoDict(os_version, display_version, build, computer, manufacturer, model, memory, install_date, last_boot, uptime_hours) ==
    [t |-> "dict", OSVersion |-> os_version, OSDisplayVersion |-> display_version,
     OSBuildNumber |-> build, ComputerName |-> computer, CsManufacturer |-> manufacturer,
     CsModel |-> model, TotalPhysicalMemory |-> memory, InstallDate |-> install_date,
     LastBootTime |-> last_boot, UptimeHours |-> uptime_hours]

AdapterDict(name, description, status, mac, ipv4, gateway, dns_servers) ==
    [t |-> "dict", Name |-> name, Description |-> description, Status |-> status,
     MACAddress |-> mac, IPv4Address |-> ipv4, Gateway |-> gateway,
     DNSServers |-> dns_servers]

NetworkInfoDict(adapters) == [t |-> "dict", Adapters |-> adapters]

TimeRangeDict(start_time, end_time) ==
    [t |-> "dict", StartTime |-> start_time, EndTime |-> end_time]

LogData(collection_time, time_range, system_info, network_info, raw_events) ==
    [t |-> "dict", CollectionTime |-> collection_time, TimeRange |-> time_range,
     SystemInfo |-> system_info, NetworkInfo |-> network_info, Events |-> raw_events]

\* the literal {} where the code reads a SystemInfo, a NetworkInfo, a TimeRange
EmptySystemInfo ==
    SystemInfoDict(Absent, Absent, Absent, Absent, Absent, Absent, Absent, Absent, Absent, Absent)
EmptyNetworkInfo == NetworkInfoDict(Absent)
EmptyTimeRange == TimeRangeDict(Absent, Absent)

\* raw_events = log_data.get("Events", [])
RawEvents(data) == Get(data, "Events", ListVal(<<>>)).items

\* process_logs raises: ValueError for a log_data that is falsy or no dict,
\* else whatever _aggregate_events raises
ProcessLogsRaised(data) ==
    IF ~Truthy(data) \/ ~IsDict(data) THEN TRUE
    ELSE AggregateRaised(RawEvents(data))

\* the processed_data dictionary process_logs(log_data) returns
ProcessLogs(data) ==
    [t |-> "dict",
     CollectionInfo |-> [t |-> "dict",
                         CollectionTime |-> GetOrNone(data, "CollectionTime"),
                         TimeRange |-> GetOrNone(data, "TimeRange")],
     SystemInfo |-> Get(data, "SystemInfo", EmptySystemInfo),
     NetworkInfo |-> Get(data, "NetworkInfo", EmptyNetworkInfo),
     EventSummary |-> GenerateEventSummary(RawEvents(data)),
     AggregatedEvents |-> AggregateEvents(RawEvents(data))]

RECURSIVE Join(_, _)
\* sep.join(lines)
Join(lines, sep) ==
    IF lines = <<>> THEN ""
    ELSE IF Len(lines) = 1 THEN lines[1]
    ELSE lines[1] \o sep \o Join(Tail(lines), sep)

\* the text an f-string shows for dict.get(key, default)
Shown(d, k, default) == PyStr(Get(d, k, StrVal(default)))

\* the lines of the system information section
SystemLines(sys_info) ==
    IF Truthy(sys_info)
    THEN <<"## SYSTEM INFORMATION ##",
           "- OS: " \o Shown(sys_info, "OSVersion", "N/A") \o " "
               \o Shown(sys_info, "OSDisplayVersion", "")
               \o " (Build " \o Shown(sys_info, "OSBuildNumber", "N/A") \o ")",
           "- Computer: " \o Shown(sys_info, "ComputerName", "N/A")
               \o " (" \o Shown(sys_info, "CsManufacturer", "N/A") \o " "
               \o Shown(sys_info, "CsModel", "N/A") \o ")",
           "- Memory: " \o Shown(sys_info, "TotalPhysicalMemory", "N/A"),
           "- Install Date: " \o Shown(sys_info, "InstallDate", "N/A"),
           "- Last Boot: " \o Shown(sys_info, "LastBootTime", "N/A"),
           "- Uptime Hours: " \o Shown(sys_info, "UptimeHours", "N/A"),
           "">>
    ELSE <<>>

\* the lines of one adapter
AdapterLines(adapter) ==
    <<"- Name: " \o Shown(adapter, "Name", "N/A")
          \o " (" \o Shown(adapter, "Description", "N/A") \o ")",
      "  Status: " \o Shown(adapter, "Status", "N/A")
          \o ", MAC: " \o Shown(adapter, "MACAddress", "N/A"),
      "  IPv4: " \o Shown(adapter, "IPv4Address", "N/A")
          \o ", Gateway: " \o Shown(adapter, "Gateway", "N/A")>>
    \o (IF Truthy(GetOrNone(adapter, "DNSServers"))
        THEN <<"  DNS: " \o Join(adapter.DNSServers.items, ", ")>>
        ELSE <<>>)

\* the number of adapters shown
AdapterLimit == 2

RECURSIVE AdaptersLines(_, _)
\* the lines of the first n adapters
AdaptersLines(adapters, n) ==
    IF n = 0 THEN <<>>
    ELSE AdaptersLines(adapters, n - 1) \o AdapterLines(adapters[n])

\* the lines of the network adapters section
NetworkLines(net_info) ==
    IF Truthy(net_info) /\ Truthy(GetOrNone(net_info, "Adapters"))
    THEN LET adapters == net_info.Adapters.items
         IN <<"## ACTIVE NETWORK ADAPTERS ##">>
            \o AdaptersLines(adapters,
                             IF Len(adapters) < AdapterLimit THEN Len(adapters) ELSE AdapterLimit)
            \o (IF Len(adapters) > AdapterLimit
                THEN <<"  (Additional adapters omitted for brevity)">>
                ELSE <<>>)
            \o <<"">>
    ELSE <<>>

\* the lines of the collection info section
CollectionLines(coll_info) ==
    IF Truthy(coll_info) /\ Truthy(GetOrNone(coll_info, "TimeRange"))
    THEN LET tr == Get(coll_info, "TimeRange", EmptyTimeRange)
         IN <<"## COLLECTION INFO ##",
              "- Logs Collected At: " \o Shown(coll_info, "CollectionTime", "N/A"),
              "- Covering Period: " \o Shown(tr, "StartTime", "N/A")
                  \o " to " \o Shown(tr, "EndTime", "N/A"),
              "">>
    ELSE <<>>

RECURSIVE LevelSummary(_, _)
\* the "lvl: cnt" texts of the first n items of ByLevel that count above 0
LevelSummary(levels, n) ==
    IF n = 0 THEN <<>>
    ELSE LevelSummary(levels, n - 1)
         \o (IF levels[n].count > 0
             THEN <<levels[n].key \o ": " \o ToString(levels[n].count)>>
             ELSE <<>>)

\* the lines of the event summary section; the summary process_logs made
\* holds all five keys, so it is truthy
SummaryLines(summary) ==
    LET level_summary == Join(LevelSummary(summary.ByLevel, Len(summary.ByLevel)), ", ")
        top_src == summary.TopSources
        top_ids == summary.TopEventIDs
    IN <<"## EVENT SUMMARY ##",
         "- Total Events Found: " \o ToString(summary.TotalEvents),
         "- Counts by Level: " \o (IF level_summary # "" THEN level_summary ELSE "None")>>
       \o (IF top_src # <<>>
           THEN <<"- Top Sources:">>
                \o [k \in 1..Len(top_src) |->
                       "  - " \o PyStr(top_src[k].Source) \o " (" \o PyStr(top_src[k].LogType)
                           \o "): " \o ToString(top_src[k].Count) \o " times"]
           ELSE <<>>)
       \o (IF top_ids # <<>>
           THEN <<"- Top Event IDs:">>
                \o [k \in 1..Len(top_ids) |->
                       "  - ID " \o top_ids[k].EventID \o " (" \o PyStr(top_ids[k].LogType)
                           \o "): " \o ToString(top_ids[k].Count) \o " times"]
           ELSE <<>>)
       \o <<"">>

RECURSIVE EventsLines(_, _)
\* the lines _format_event appends for the first n events
EventsLines(events_to_format, n) ==
    IF n = 0 THEN <<>>
    ELSE EventsLines(events_to_format, n - 1) \o FormatEvent(events_to_format[n])

\* the lines of the aggregated events section; events_to_format is
\* aggregated_events itself, so neither the "No significant events" line nor
\* the "omitted" line can be appended
AggregatedLines(aggregated) ==
    IF aggregated # <<>>
    THEN <<"## AGGREGATED EVENT DETAILS (Sorted by Frequency) ##">>
         \o EventsLines(aggregated, Len(aggregated))
    ELSE <<>>

\* a faulty variant: the event summary is put before the collection info
OutputLinesSummaryFirst(processed) ==
    SystemLines(Get(processed, "SystemInfo", EmptySystemInfo))
    \o NetworkLines(Get(processed, "NetworkInfo", EmptyNetworkInfo))
    \o SummaryLines(processed.EventSummary)
    \o CollectionLines(processed.CollectionInfo)
    \o AggregatedLines(processed.AggregatedEvents)

\* output_lines of format_for_llm(processed_data)
OutputLines(processed) ==
    SystemLines(Get(processed, "SystemInfo", EmptySystemInfo))
    \o NetworkLines(Get(processed, "NetworkInfo", EmptyNetworkInfo))
    \o CollectionLines(processed.CollectionInfo)
    \o SummaryLines(processed.EventSummary)
    \o AggregatedLines(processed.AggregatedEvents)

\* format_for_llm(processed_data): "\n".join(output_lines)
FormatForLlm(processed) == Join(OutputLines(processed), "\n")

---------------------------------------------------------------------------
(* Inputs of the level normaliser *)

MaxPad == 1

PadChars == {" ", "\t"}

RECURSIVE Pads(_)
\* the whitespace runs of length n
Pads(n) == IF n = 0 THEN {""} ELSE {p \o c : p \in Pads(n - 1), c \in PadChars}

PadsUpTo(n) == UNION {Pads(k) : k \in 0..n}

LevelCores ==
    {"", "critical", "Critical", "CRITICAL", "error", "Error", "ERROR", "eRRoR",
     "warning", "Warning", "WARNING", "information", "Information", "INFORMATION",
     "verbose", "Verbose", "VERBOSE", "0", "1", "2", "3", "4", "5", "6", "01",
     "bogus", "errors", "err or", "Unknown", "None"}

LevelInputs ==
    {None} \cup {IntVal(n) : n \in 0..6}
    \cup {StrVal(l \o c \o r) : l \in PadsUpTo(MaxPad), c \in LevelCores, r \in PadsUpTo(MaxPad)}

---------------------------------------------------------------------------
(* The call of _normalize_level_name *)

\* the variables of a call that is not made
NormalizeIdle == level = None /\ level_name = "" /\ level_name_again = ""
AggregateIdle == events = <<>> /\ aggregated_events = <<>>
SummaryIdle == summarized_events = <<>> /\ event_summary = None
PipelineIdle ==
    log_data = None /\ processed_data = None /\ output_lines = <<>> /\ formatted_text = ""
FileIdle == input_file = None
RepeatIdle == verbose = FALSE /\ processed_again = None /\ formatted_again = ""
ManagerIdle ==
    /\ model_path = "" /\ llm = None /\ model_loaded = FALSE /\ models_created = 0
    /\ raised = "" /\ returned = "" /\ generate_calls = <<>>
PromptIdle ==
    /\ context_size = 0 /\ query = "" /\ prompt_log_data = None /\ use_reduced_events = FALSE
    /\ formatted_event_strings = <<>>
    /\ max_event_chars = 0 /\ current_event_chars = 0 /\ events_omitted = FALSE
    /\ final_prompt = ""
\* no AnimusCLI has been created
CliIdle ==
    /\ files = <<>>
    /\ running = FALSE
    /\ log_file = ""
    /\ logs_loaded = FALSE
    /\ cli_log_data = None
    /\ self_logs = None
    /\ auto_collect = FALSE
    /\ force_collect = FALSE
    /\ in_qa_mode = FALSE
    /\ qa_context = <<>>
    /\ console = None
    /\ called = None

InitNormalize ==
    /\ pc = "call"
    /\ level \in LevelInputs
    /\ level_name = ""
    /\ level_name_again = ""
    /\ AggregateIdle /\ SummaryIdle /\ PipelineIdle /\ FileIdle
    /\ RepeatIdle /\ ManagerIdle /\ PromptIdle /\ CliIdle

NormalizeLevel ==
    /\ pc = "call"
    /\ level_name' = NormalizeLevelName(level)
    /\ pc' = "returned"
    /\ UNCHANGED <<level, level_name_again, aggregate_vars, summary_vars, pipeline_vars, file_vars, repeat_vars, manager_vars, prompt_vars, cli_vars>>

\* the name returned is normalised once more
NormalizeLevelAgain ==
    /\ pc = "returned"
    /\ level_name_again' = NormalizeLevelName(StrVal(level_name))
    /\ pc' = "returned again"
    /\ UNCHANGED <<level, level_name, aggregate_vars, summary_vars, pipeline_vars, file_vars, repeat_vars, manager_vars, prompt_vars, cli_vars>>

NextNormalize == NormalizeLevel \/ NormalizeLevelAgain

SpecNormalize == InitNormalize /\ [][NextNormalize]_vars

---------------------------------------------------------------------------
(* Batches of events *)

MaxBatch == 3

RECURSIVE Batches(_)
\* the batches of exactly n events
Batches(n) ==
    IF n = 0 THEN {<<>>}
    ELSE {Append(b, e) : b \in Batches(n - 1), e \in EventPool}

BatchesUpTo(n) == UNION {Batches(k) : k \in 0..n}

---------------------------------------------------------------------------
(* The call of _aggregate_events *)

Init ==
    /\ pc = "call"
    /\ events \in BatchesUpTo(MaxBatch)
    /\ aggregated_events = <<>>
    /\ NormalizeIdle /\ SummaryIdle /\ PipelineIdle /\ FileIdle
    /\ RepeatIdle /\ ManagerIdle /\ PromptIdle /\ CliIdle

AggregateReturns ==
    /\ pc = "call"
    /\ ~AggregateRaised(events)
    /\ aggregated_events' = AggregateEvents(events)
    /\ pc' = "returned"
    /\ UNCHANGED <<events, normalize_vars, summary_vars, pipeline_vars, file_vars, repeat_vars, manager_vars, prompt_vars, cli_vars>>

AggregateRaises ==
    /\ pc = "call"
    /\ AggregateRaised(events)
    /\ pc' = "raised"
    /\ UNCHANGED <<aggregate_vars, normalize_vars, summary_vars, pipeline_vars, file_vars, repeat_vars, manager_vars, prompt_vars, cli_vars>>

Next == AggregateReturns \/ AggregateRaises

Spec == Init /\ [][Next]_vars

---------------------------------------------------------------------------
(* The pipeline: process_logs, then format_for_llm on what it returned *)

MaxEvents == 2

FullSystemInfo ==
    SystemInfoDict(StrVal("Microsoft Windows 11 Pro"), StrVal("23H2"), StrVal("22631"),
                   StrVal("DESKTOP-01"), StrVal("Dell Inc."), StrVal("XPS 15"),
                   StrVal("16 GB"), StrVal("2023-01-15"), StrVal("2024-03-01T08:00:00"),
                   IntVal(26))

\* a SystemInfo with two keys only, one of them null
PartialSystemInfo ==
    SystemInfoDict(Absent, Absent, Absent, StrVal("DESKTOP-01"), Absent, Absent,
                   Absent, Absent, None, Absent)

Ethernet ==
    AdapterDict(StrVal("Ethernet"), StrVal("Intel I219"), StrVal("Up"),
                StrVal("00-11-22-33-44-55"), StrVal("192.168.1.10"), StrVal("192.168.1.1"),
                ListVal(<<"192.168.1.1", "8.8.8.8">>))
WiFi ==
    AdapterDict(StrVal("Wi-Fi"), Absent, StrVal("Up"), Absent, StrVal("192.168.1.11"),
                None, ListVal(<<>>))
Loopback ==
    AdapterDict(StrVal("Loopback"), Absent, Absent, Absent, Absent, Absent, Absent)

\* the (CollectionTime, TimeRange, SystemInfo, NetworkInfo) the events come with
Envelopes ==
    {<<Absent, Absent, Absent, Absent>>,
     <<Absent, Absent, EmptySystemInfo, EmptyNetworkInfo>>,
     <<StrVal("2024-03-01T13:00:00"), EmptyTimeRange, None, NetworkInfoDict(ListVal(<<>>))>>,
     <<StrVal("2024-03-01T13:00:00"),
       TimeRangeDict(StrVal("2024-02-29T13:00:00"), StrVal("2024-03-01T13:00:00")),
       FullSystemInfo, NetworkInfoDict(ListVal(<<Ethernet>>))>>,
     <<Absent, TimeRangeDict(StrVal("2024-02-29T13:00:00"), Absent),
       PartialSystemInfo, NetworkInfoDict(ListVal(<<WiFi, Ethernet, Loopback>>))>>}

\* the log_data dictionaries: every envelope with no Events key and with
\* every batch, and the two values process_logs rejects
LogDataPool ==
    {None}
    \cup {LogData(e[1], e[2], e[3], e[4], raw) :
            e \in Envelopes,
            raw \in {Absent} \cup {ListVal(b) : b \in BatchesUpTo(MaxEvents)}}

InitProcess ==
    /\ pc = "call"
    /\ log_data \in LogDataPool
    /\ processed_data = None
    /\ output_lines = <<>>
    /\ formatted_text = ""
    /\ NormalizeIdle /\ AggregateIdle /\ SummaryIdle /\ FileIdle
    /\ RepeatIdle /\ ManagerIdle /\ PromptIdle /\ CliIdle

\* a faulty process_logs, which takes the events out of the list as it groups them
LogDataDrained(data) ==
    IF data.Events = Absent THEN data ELSE [data EXCEPT !.Events = ListVal(<<>>)]

\* log_data when process_logs(log_data) has returned: the code reads the
\* dictionary, its Events list and the events with get() and iteration only
LogDataAfterProcessLogs(data) == data

\* processed_data when format_for_llm(processed_data) has returned: the
\* summary and the groups are read with get() and iteration only
ProcessedDataAfterFormat(processed) == processed

ProcessLogsReturns ==
    /\ pc = "call"
    /\ ~ProcessLogsRaised(log_data)
    /\ processed_data' = ProcessLogs(log_data)
    /\ log_data' = LogDataAfterProcessLogs(log_data)
    /\ pc' = "processed"
    /\ UNCHANGED <<output_lines, formatted_text,
                   normalize_vars, aggregate_vars, summary_vars, file_vars, repeat_vars, manager_vars, prompt_vars, cli_vars>>

ProcessLogsRaises ==
    /\ pc = "call"
    /\ ProcessLogsRaised(log_data)
    /\ pc' = "raised"
    /\ UNCHANGED <<pipeline_vars, normalize_vars, aggregate_vars, summary_vars, file_vars, repeat_vars, manager_vars, prompt_vars, cli_vars>>

FormatReturns ==
    /\ pc = "processed"
    /\ output_lines' = OutputLines(processed_data)
    /\ formatted_text' = FormatForLlm(processed_data)
    /\ processed_data' = ProcessedDataAfterFormat(processed_data)
    /\ pc' = "formatted"
    /\ UNCHANGED <<log_data,
                   normalize_vars, aggregate_vars, summary_vars, file_vars, repeat_vars, manager_vars, prompt_vars, cli_vars>>

NextProcess == ProcessLogsReturns \/ ProcessLogsRaises \/ FormatReturns

SpecProcess == InitProcess /\ [][NextProcess]_vars

---------------------------------------------------------------------------
(* The pipeline called twice on one LogProcessor: process_logs and         *)
(* format_for_llm, then both again on the same log_data and the same       *)
(* processed_data.  The processor's only attribute is verbose, which       *)
(* __init__ sets and which switches log messages on.                       *)

InitRepeat ==
    /\ pc = "call"
    /\ log_data \in LogDataPool
    /\ verbose \in BOOLEAN
    /\ processed_data = None
    /\ output_lines = <<>>
    /\ formatted_text = ""
    /\ processed_again = None
    /\ formatted_again = ""
    /\ NormalizeIdle /\ AggregateIdle /\ SummaryIdle /\ FileIdle
    /\ ManagerIdle /\ PromptIdle /\ CliIdle

\* process_logs returns: the first call, or the call repeated after the
\* pipeline has run once
ProcessLogsCalled ==
    /\ pc \in {"call", "formatted"}
    /\ ~ProcessLogsRaised(log_data)
    /\ \E result \in {ProcessLogs(log_data)} :
          IF pc = "call"
          THEN processed_data' = result /\ pc' = "processed" /\ UNCHANGED processed_again
          ELSE processed_again' = result /\ pc' = "processed again" /\ UNCHANGED processed_data
    /\ log_data' = LogDataAfterProcessLogs(log_data)
    /\ UNCHANGED <<verbose, formatted_again, output_lines, formatted_text, normalize_vars,
                   aggregate_vars, summary_vars, file_vars, manager_vars, prompt_vars, cli_vars>>

\* format_for_llm returns: the first call, or the call repeated
FormatForLlmCalled ==
    /\ pc \in {"processed", "processed again"}
    /\ \E lines \in {OutputLines(processed_data)}, text \in {FormatForLlm(processed_data)} :
          IF pc = "processed"
          THEN /\ output_lines' = lines /\ formatted_text' = text /\ pc' = "formatted"
               /\ UNCHANGED formatted_again
          ELSE /\ formatted_again' = text /\ pc' = "formatted again"
               /\ UNCHANGED <<output_lines, formatted_text>>
    /\ processed_data' = ProcessedDataAfterFormat(processed_data)
    /\ UNCHANGED <<verbose, processed_again, log_data, normalize_vars, aggregate_vars,
                   summary_vars, file_vars, manager_vars, prompt_vars, cli_vars>>

NextRepeat == ProcessLogsCalled \/ ProcessLogsRaises \/ FormatForLlmCalled

SpecRepeat == InitRepeat /\ [][NextRepeat]_vars

---------------------------------------------------------------------------
(* process_log_file(input_file): the file is read and validated, then      *)
(* process_logs and format_for_llm are called on the document loaded.      *)
(* A file is missing, or holds a text that is no JSON document, or holds   *)
(* the JSON text of a value; json.loads gives that value back.             *)

MissingFile == [t |-> "missing"]
TextFile(text) == [t |-> "text", s |-> text]
JsonFile(value) == [t |-> "json", value |-> value]

IsList(v) == v.t = "list"

\* os.path.exists(input_file) is false: FileNotFoundError
FileNotFound(file) == file.t = "missing"

\* json.loads(content) raises JSONDecodeError
JsonDecodeError(file) == file.t = "text"

\* a faulty variant: the Events of a dictionary are not looked at
LoadFailedUnlessDict(file) ==
    IF FileNotFound(file) THEN FALSE
    ELSE IF file.t = "text" THEN TRUE
    ELSE ~IsDict(file.value)

\* the try block raises something other than FileNotFoundError, which is
\* raised again as RuntimeError: the file is empty, or blank, or no JSON, or
\* the document is no dict, or its Events is no list
LoadFailed(file) ==
    IF FileNotFound(file) THEN FALSE
    ELSE IF file.t = "text" THEN Len(file.s) = 0 \/ StrStrip(file.s) = "" \/ JsonDecodeError(file)
    ELSE IF ~IsDict(file.value) THEN TRUE
    ELSE file.value.Events # Absent /\ ~IsList(file.value.Events)

\* log_data after the try block: the document, with Events = [] put in when
\* it has no Events key
LoadedLogData(file) ==
    IF file.value.Events = Absent THEN [file.value EXCEPT !.Events = ListVal(<<>>)]
    ELSE file.value

\* the texts that are no JSON document, the JSON values that are no dict and
\* the Events values that are no list
TextPool == {"", " \n", "not json", "{\"Events\": ["}
NonDictPool == {None, IntVal(5), StrVal("x"), ListVal(<<>>)}
NonListPool == {None, IntVal(5), StrVal(""), StrVal("abc"), EmptySystemInfo}

\* the files: missing, no JSON, a JSON value that is no dict, a dictionary
\* whose Events is no list, and every dictionary of the pipeline's pool
FilePool ==
    {MissingFile}
    \cup {TextFile(text) : text \in TextPool}
    \cup {JsonFile(value) : value \in NonDictPool}
    \cup {JsonFile(LogData(e[1], e[2], e[3], e[4], raw)) : e \in Envelopes, raw \in NonListPool}
    \cup {JsonFile(data) : data \in LogDataPool \ {None}}

\* a call of process_log_file on a file, or a call of process_logs on a
\* value that is no dictionary
InitFile ==
    /\ \/ /\ pc = "open"
          /\ input_file \in FilePool
          /\ log_data = None
       \/ /\ pc = "call"
          /\ input_file = None
          /\ log_data \in NonDictPool
    /\ processed_data = None
    /\ output_lines = <<>>
    /\ formatted_text = ""
    /\ NormalizeIdle /\ AggregateIdle /\ SummaryIdle
    /\ RepeatIdle /\ ManagerIdle /\ PromptIdle /\ CliIdle

LoadFileNotFound ==
    /\ pc = "open"
    /\ FileNotFound(input_file)
    /\ pc' = "not found"
    /\ UNCHANGED <<pipeline_vars, normalize_vars, aggregate_vars, summary_vars, file_vars, repeat_vars, manager_vars, prompt_vars, cli_vars>>

LoadFileFails ==
    /\ pc = "open"
    /\ LoadFailed(input_file)
    /\ pc' = "load failed"
    /\ UNCHANGED <<pipeline_vars, normalize_vars, aggregate_vars, summary_vars, file_vars, repeat_vars, manager_vars, prompt_vars, cli_vars>>

LoadFileReturns ==
    /\ pc = "open"
    /\ ~FileNotFound(input_file)
    /\ ~LoadFailed(input_file)
    /\ log_data' = LoadedLogData(input_file)
    /\ pc' = "call"
    /\ UNCHANGED <<processed_data, output_lines, formatted_text,
                   normalize_vars, aggregate_vars, summary_vars, file_vars, repeat_vars, manager_vars, prompt_vars, cli_vars>>

NextFile ==
    \/ LoadFileNotFound
    \/ LoadFileFails
    \/ LoadFileReturns
    \/ ProcessLogsReturns
    \/ ProcessLogsRaises
    \/ FormatReturns

SpecFile == InitFile /\ [][NextFile]_vars

---------------------------------------------------------------------------
(* The call of _generate_event_summary *)
(* Besides the short batches of pool events, batches of up to MaxSources   *)
(* sources with one to MaxRepeat events each: long enough for more than    *)
(* five sources and event ids to repeat, with counts that differ.          *)

MaxSources == 7
MaxRepeat == 3

\* the levels the events of a long batch cycle through
LevelCycle ==
    <<StrVal("1"), StrVal("Error"), StrVal("warning"), StrVal("bogus"), Absent,
      StrVal("VERBOSE"), IntVal(4)>>

\* the j-th event of source i: its LogName alternates, so that a source is
\* seen in two logs; source 1 has EventID 0; the third event of a source has
\* the EventID of the next source, so that an id is seen with two sources
SourceEvent(i, j) ==
    Event(IF (i + j) % 2 = 0 THEN StrVal("System") ELSE StrVal("Application"),
          StrVal("source" \o ToString(i)),
          IntVal((i - 1) + (IF j >= 3 THEN 1 ELSE 0)),
          LevelCycle[((i + j) % Len(LevelCycle)) + 1],
          Absent, Absent)

\* how often source i occurs in the batch of profile (a, b): every source
\* equally often, or the sources in turn once to MaxRepeat times, or one
\* source once, the next once less than MaxRepeat times and the others
\* MaxRepeat times
RepeatOf(i, a, b) ==
    IF a = 0 THEN 1 + b
    ELSE IF a = 1 THEN 1 + ((i + b) % MaxRepeat)
    ELSE IF i = b + 1 THEN 1
    ELSE IF i = b + 2 THEN MaxRepeat - 1
    ELSE MaxRepeat

RECURSIVE SourceBlock(_, _)
\* the first c events of source i
SourceBlock(i, c) == IF c = 0 THEN <<>> ELSE Append(SourceBlock(i, c - 1), SourceEvent(i, c))

RECURSIVE BySource(_, _, _)
\* the batch source by source
BySource(n, a, b) ==
    IF n = 0 THEN <<>> ELSE BySource(n - 1, a, b) \o SourceBlock(n, RepeatOf(n, a, b))

RECURSIVE Round(_, _, _, _)
\* the j-th events of the first n sources
Round(n, j, a, b) ==
    IF n = 0 THEN <<>>
    ELSE Round(n - 1, j, a, b)
         \o (IF j <= RepeatOf(n, a, b) THEN <<SourceEvent(n, j)>> ELSE <<>>)

RECURSIVE ByRound(_, _, _, _)
\* the batch round by round: the first events of all sources, then the second
ByRound(n, j, a, b) ==
    IF j = 0 THEN <<>> ELSE ByRound(n, j - 1, a, b) \o Round(n, j, a, b)

Reversed(evs) == [i \in 1..Len(evs) |-> evs[Len(evs) + 1 - i]]

LongBatches ==
    UNION {{BySource(n, a, b), ByRound(n, MaxRepeat, a, b),
            Reversed(BySource(n, a, b)), Reversed(ByRound(n, MaxRepeat, a, b))} :
           n \in 1..MaxSources, a \in 0..2, b \in 0..(MaxRepeat - 1)}

\* four events with the levels "1", "Error", "warning", "bogus"
FourLevels ==
    <<Event(StrVal("System"), StrVal("disk"), IntVal(7), StrVal("1"), Absent, Absent),
      Event(StrVal("System"), StrVal("disk"), IntVal(7), StrVal("Error"), Absent, Absent),
      Event(StrVal("Application"), StrVal("App"), IntVal(1000), StrVal("warning"), Absent, Absent),
      Event(StrVal("Application"), StrVal("App"), IntVal(1000), StrVal("bogus"), Absent, Absent)>>

SummaryBatches == BatchesUpTo(MaxEvents) \cup LongBatches \cup {FourLevels}

InitSummary ==
    /\ pc = "call"
    /\ summarized_events \in SummaryBatches
    /\ event_summary = None
    /\ NormalizeIdle /\ AggregateIdle /\ PipelineIdle /\ FileIdle
    /\ RepeatIdle /\ ManagerIdle /\ PromptIdle /\ CliIdle

GenerateSummary ==
    /\ pc = "call"
    /\ event_summary' = GenerateEventSummary(summarized_events)
    /\ pc' = "returned"
    /\ UNCHANGED <<summarized_events, normalize_vars, aggregate_vars, pipeline_vars, file_vars, repeat_vars, manager_vars, prompt_vars, cli_vars>>

NextSummary == GenerateSummary

SpecSummary == InitSummary /\ [][NextSummary]_vars

---------------------------------------------------------------------------
(* Properties of _aggregate_events, stated on the batch and the list returned *)

Returned == pc = "returned"

RECURSIVE SumOccurrenceCount(_, _)
SumOccurrenceCount(aggregated, n) ==
    IF n = 0 THEN 0
    ELSE SumOccurrenceCount(aggregated, n - 1) + aggregated[n].OccurrenceCount

\* the tuple the events are grouped by, with the defaults of missing fields
KeyTuple(event) ==
    <<Get(event, "LogName", StrVal("Unknown")),
      Get(event, "ProviderName", StrVal("Unknown")),
      Get(event, "EventID", IntVal(0)),
      NormalizeLevelName(Get(event, "Level", StrVal("Information")))>>

\* KeyTuple of every event of the pool, computed once
TupleOf == [event \in EventPool |-> KeyTuple(event)]

KeyTuples == {TupleOf[events[i]] : i \in 1..Len(events)}

\* the group's own four fields
GroupTuple(g) == <<g.LogName, g.ProviderName, g.EventID, g.Level>>

HasKeyTuple(event, tuple) == TupleOf[event] = tuple

\* the events of the batch that have this tuple, in input order
Members(tuple) == SelectSeq(events, LAMBDA event : HasKeyTuple(event, tuple))

\* the group returned for a tuple shows the fields of the tuple's first event
IsGroupOf(g, tuple) ==
    /\ g.LogName = GetOrNone(Members(tuple)[1], "LogName")
    /\ g.ProviderName = GetOrNone(Members(tuple)[1], "ProviderName")
    /\ g.EventID = GetOrNone(Members(tuple)[1], "EventID")
    /\ g.Level = tuple[4]

\* the datetimes the code parsed from the events of a tuple
ParsedTimestamps(tuple) ==
    {TimestampOf[Members(tuple)[i]] : i \in 1..Len(Members(tuple))} \ {NotADate}

\* C1: the OccurrenceCounts of the groups returned add up to the number of
\* events of the batch, every group counts at least one event, and there are
\* no more groups than events.
C1_CountsAddUp ==
    Returned =>
        /\ SumOccurrenceCount(aggregated_events, Len(aggregated_events)) = Len(events)
        /\ \A i \in 1..Len(aggregated_events) : aggregated_events[i].OccurrenceCount >= 1
        /\ Len(aggregated_events) <= Len(events)

\* a batch of three events that came back as a group of two and a group of one
C1_Witness ==
    /\ Returned
    /\ Len(events) = 3
    /\ Len(aggregated_events) = 2
    /\ \E i \in 1..2 : aggregated_events[i].OccurrenceCount = 2

\* C2: there is one group per distinct (LogName, ProviderName, EventID,
\* normalized Level) tuple of the batch, missing fields counting as "Unknown",
\* "Unknown", 0 and Information; the group's OccurrenceCount is the number of
\* events with that tuple and its four fields are the tuple's components.
C2_GroupsAreTuples ==
    Returned =>
        /\ Len(aggregated_events) = Cardinality(KeyTuples)
        /\ \A i \in 1..Len(aggregated_events) :
              /\ GroupTuple(aggregated_events[i]) \in KeyTuples
              /\ aggregated_events[i].OccurrenceCount
                     = Len(Members(GroupTuple(aggregated_events[i])))

\* C3: the list returned is sorted by OccurrenceCount descending, then by
\* LastTimestamp descending, a group without timestamp (key "") last.
C3_SortedByCountThenLast ==
    Returned =>
        \A i, j \in 1..Len(aggregated_events) :
            i < j =>
                /\ aggregated_events[i].OccurrenceCount >= aggregated_events[j].OccurrenceCount
                /\ aggregated_events[i].OccurrenceCount = aggregated_events[j].OccurrenceCount
                       => ~StrLess(LastTimestampOrEmpty(aggregated_events[i]),
                                   LastTimestampOrEmpty(aggregated_events[j]))

\* C6: whatever the TimeCreated values of a batch are, _aggregate_events
\* returns; it never raises.
C6_NeverRaises == pc # "raised"

\* C7: for every group, FirstTimestamp and LastTimestamp are the texts of a
\* least and a greatest datetime among those parsed from the group's events;
\* both are None exactly when none was parsed; and First is not after Last.
C7_FirstLastAreMinMax ==
    Returned =>
        \A tuple \in KeyTuples :
            \E i \in 1..Len(aggregated_events) :
                LET g == aggregated_events[i]
                    parsed == ParsedTimestamps(tuple)
                IN /\ IsGroupOf(g, tuple)
                   /\ g.OccurrenceCount = Len(Members(tuple))
                   /\ (g.FirstTimestamp = None) <=> (parsed = {})
                   /\ (g.LastTimestamp = None) <=> (parsed = {})
                   /\ parsed # {} =>
                         \E first, last \in parsed :
                             /\ g.FirstTimestamp = StrVal(IsoFormat(first))
                             /\ g.LastTimestamp = StrVal(IsoFormat(last))
                             /\ \A dt \in parsed :
                                   ~DateTimeLess(dt, first) /\ ~DateTimeLess(last, dt)
                             /\ ~DateTimeLess(last, first)

\* a group of three events, one of them without a parsable timestamp, whose
\* later event came first in the batch
C7_Witness ==
    /\ Returned
    /\ Len(events) = 3
    /\ Len(aggregated_events) = 1
    /\ TimestampOf[events[1]].ok /\ TimestampOf[events[3]].ok
    /\ ~TimestampOf[events[2]].ok
    /\ DateTimeLess(TimestampOf[events[3]], TimestampOf[events[1]])
    /\ aggregated_events[1].FirstTimestamp # aggregated_events[1].LastTimestamp

\* the (tuple, count, first, last) of every group of a list returned
GroupStats(aggregated) ==
    {<<GroupTuple(aggregated[i]), aggregated[i].OccurrenceCount,
       aggregated[i].FirstTimestamp, aggregated[i].LastTimestamp>> : i \in 1..Len(aggregated)}

IndexPermutations(n) == {f \in [1..n -> 1..n] : \A i, j \in 1..n : i # j => f[i] # f[j]}

Permuted(evs, f) == [i \in 1..Len(evs) |-> evs[f[i]]]

\* C8: every permutation of the batch gives the same group keys, each with
\* the same OccurrenceCount, FirstTimestamp and LastTimestamp.
C8_OrderInsensitive ==
    Returned =>
        \A f \in IndexPermutations(Len(events)) :
            /\ ~AggregateRaised(Permuted(events, f))
            /\ GroupStats(AggregateEvents(Permuted(events, f))) = GroupStats(aggregated_events)

\* C9: the Message of a group is the Message of the first event of the batch
\* with the group's tuple ("No message" when that event has no Message key),
\* whatever the messages of the later events are.
C9_MessageOfFirstEvent ==
    Returned =>
        \A tuple \in KeyTuples :
            \E i \in 1..Len(aggregated_events) :
                /\ IsGroupOf(aggregated_events[i], tuple)
                /\ aggregated_events[i].OccurrenceCount = Len(Members(tuple))
                /\ aggregated_events[i].Message
                       = Get(Members(tuple)[1], "Message", StrVal("No message"))

\* a group whose second event carries another message than its first
C9_Witness ==
    /\ Returned
    /\ Len(events) >= 2
    /\ TupleOf[events[1]] = TupleOf[events[2]]
    /\ GetOrNone(events[1], "Message") # GetOrNone(events[2], "Message")
    /\ \E i \in 1..Len(aggregated_events) :
           /\ aggregated_events[i].OccurrenceCount >= 2
           /\ aggregated_events[i].Message = Get(events[1], "Message", StrVal("No message"))

---------------------------------------------------------------------------
(* Properties of _normalize_level_name, stated on the argument and the result *)

\* the name whose numeric code is this text, "" when it is no code
LevelOfCode(code) ==
    CASE code = "1" -> "Critical"
      [] code = "2" -> "Error"
      [] code = "3" -> "Warning"
      [] code = "4" -> "Information"
      [] code = "5" -> "Verbose"
      [] OTHER -> ""

\* the canonical names that equal the text when case is ignored
NamesMatching(text) == {name \in CanonicalLevels : StrLower(name) = StrLower(text)}

\* the result as stated with the codes matched exactly: a name matches after
\* trimming and ignoring case, a code only as the text "1".."5" itself
LevelWithExactCodes(lv) ==
    IF IsStr(lv) /\ NamesMatching(StrStrip(lv.s)) # {}
    THEN CHOOSE name \in NamesMatching(StrStrip(lv.s)) : TRUE
    ELSE IF IsStr(lv) /\ LevelOfCode(lv.s) # "" THEN LevelOfCode(lv.s)
    ELSE "Information"

\* C10 as stated: names are matched trimmed and case-insensitively, the codes
\* "1".."5" map to the five names, and every other input, empty text and None
\* included, gives Information.
C10_ExactCodesOnly == Returned => level_name = LevelWithExactCodes(level)

\* the result with names and codes both matched on the trimmed, lowered text
\* of the value, and every falsy value (None, "", 0) giving Information
LevelWithTrimmedCodes(lv) ==
    IF ~Truthy(lv) THEN "Information"
    ELSE IF NamesMatching(StrStrip(PyStr(lv))) # {}
         THEN CHOOSE name \in NamesMatching(StrStrip(PyStr(lv))) : TRUE
    ELSE IF LevelOfCode(StrStrip(PyStr(lv))) # "" THEN LevelOfCode(StrStrip(PyStr(lv)))
    ELSE "Information"

\* C10: _normalize_level_name returns one of the five canonical names for
\* every input: the name the trimmed text of the value equals when case is
\* ignored, else the name whose code "1".."5" the trimmed text is, else
\* Information; None, empty text and 0 give Information.
C10_TotalOverFiveNames ==
    Returned =>
        /\ level_name \in CanonicalLevels
        /\ level_name = LevelWithTrimmedCodes(level)

\* a padded code came back as the name of the code
C10_Witness ==
    /\ Returned
    /\ level = StrVal(" 2\t")
    /\ level_name = "Error"

---------------------------------------------------------------------------
(* Properties of format_for_llm, stated on processed_data and the text *)

Formatted == pc = "formatted"

\* s ends with the text suffix
EndsWith(s, suffix) ==
    Len(s) >= Len(suffix) /\ SubSeq(s, Len(s) - Len(suffix) + 1, Len(s)) = suffix

\* the budgets a caller may ask for
MaxBudgetChars == 50

TruncationMarker == "...[truncated]"

\* the text cut to the budget, marked when it was cut
CutToBudget(text, budgetChars) ==
    IF Len(text) <= budgetChars THEN text
    ELSE Prefix(text, budgetChars) \o TruncationMarker

\* C4: for every budget, the text returned is the full rendering when that
\* has at most budgetChars characters, else its first budgetChars characters
\* followed by "...[truncated]"; so it is within the budget or ends with the
\* marker.
C4_HonoursBudget ==
    Formatted =>
        \A budgetChars \in 0..MaxBudgetChars :
            /\ formatted_text = CutToBudget(Join(output_lines, "\n"), budgetChars)
            /\ Len(formatted_text) <= budgetChars \/ EndsWith(formatted_text, TruncationMarker)

\* the line is among the lines of the text
HasLine(header) == \E i \in 1..Len(output_lines) : output_lines[i] = header

\* C5: the text shows the header of the system information, of the event
\* summary and of the aggregated event details whenever processed_data holds
\* the dictionary, or the list, the section is made from, empty or not.
C5_HeadersAlwaysRendered ==
    Formatted =>
        /\ IsDict(processed_data.SystemInfo) => HasLine("## SYSTEM INFORMATION ##")
        /\ HasLine("## EVENT SUMMARY ##")
        /\ HasLine("## AGGREGATED EVENT DETAILS (Sorted by Frequency) ##")

\* C11: normalising the name that _normalize_level_name returned gives that
\* name again, whatever the first argument was.
C11_Idempotent == pc = "returned again" => level_name_again = level_name

\* a numeric code was normalised to a name other than Information, and the
\* name was normalised again
C11_Witness ==
    /\ pc = "returned again"
    /\ level = StrVal("3")
    /\ level_name = "Warning"
    /\ level_name_again = "Warning"

---------------------------------------------------------------------------
(* Properties of _generate_event_summary, stated on the batch and the      *)
(* dictionary returned                                                     *)

\* counts[key] of a dict of counts, 0 for a key it does not hold
CountOf(items, key) ==
    IF ItemIndex(items, key, 1) = 0 THEN 0 ELSE items[ItemIndex(items, key, 1)].count

\* the keys of a dict of counts
KeysOf(items) == {items[k].key : k \in 1..Len(items)}

\* what an event is counted under: its category, its normalised level, its
\* source and its event id as the summary keys them, and whether it has an id
CategoryOf(event) == Get(event, "LogName", StrVal("Unknown"))
LevelOf(event) == NormalizeLevelName(Get(event, "Level", StrVal("Information")))
SourceOf(event) == Get(event, "ProviderName", StrVal("Unknown"))
EventIdOf(event) == PyStr(Get(event, "EventID", IntVal(0)))
HasEventId(event) == Get(event, "EventID", IntVal(0)) # IntVal(0)

\* the positions of the batch
BatchPositions == 1..Len(summarized_events)

\* how many events of the batch have the category, the level, the source,
\* the event id
CategoryTotal(c) == Cardinality({k \in BatchPositions : CategoryOf(summarized_events[k]) = c})
LevelTotal(l) == Cardinality({k \in BatchPositions : LevelOf(summarized_events[k]) = l})
SourceTotal(source) == Cardinality({k \in BatchPositions : SourceOf(summarized_events[k]) = source})
EventIdTotal(id) ==
    Cardinality({k \in BatchPositions :
                    HasEventId(summarized_events[k]) /\ EventIdOf(summarized_events[k]) = id})

\* C12: TotalEvents is the number of events of the batch, ByLogType[c] the
\* number of events of category c and ByLevel[s] the number of events whose
\* normalised Level is s, for every category and level (0 meaning no key).
C12_CountsPerCategoryAndLevel ==
    Returned =>
        /\ event_summary.TotalEvents = Len(summarized_events)
        /\ \A c \in KeysOf(event_summary.ByLogType)
                  \cup {CategoryOf(summarized_events[n]) : n \in BatchPositions} :
               CountOf(event_summary.ByLogType, c) = CategoryTotal(c)
        /\ \A l \in KeysOf(event_summary.ByLevel) \cup CanonicalLevels :
               CountOf(event_summary.ByLevel, l) = LevelTotal(l)

\* the batch with the levels "1", "Error", "warning", "bogus" was counted as
\* one Critical, one Error, one Warning, one Information
C12_Witness ==
    /\ Returned
    /\ summarized_events = FourLevels
    /\ event_summary.TotalEvents = 4
    /\ \A l \in {"Critical", "Error", "Warning", "Information"} :
           CountOf(event_summary.ByLevel, l) = 1

\* C13: ByLevel holds each of the five keys Critical, Error, Warning,
\* Information and Verbose, with 0 for a level no event of the batch has.
C13_AllFiveLevelKeys ==
    Returned =>
        \A l \in CanonicalLevels :
            /\ l \in KeysOf(event_summary.ByLevel)
            /\ CountOf(event_summary.ByLevel, l) = LevelTotal(l)

\* the two top lists, their keys and their Counts by position
TopSourcesList == event_summary.TopSources
TopEventIDsList == event_summary.TopEventIDs
TopSourceKeys == [n \in 1..Len(TopSourcesList) |-> TopSourcesList[n].Source]
TopEventIdKeys == [n \in 1..Len(TopEventIDsList) |-> TopEventIDsList[n].EventID]
TopSourceCounts == [n \in 1..Len(TopSourcesList) |-> TopSourcesList[n].Count]
TopEventIdCounts == [n \in 1..Len(TopEventIDsList) |-> TopEventIDsList[n].Count]

\* a top list is short, without repetition and descending by Count
WellFormedTop(keys, counts) ==
    /\ Len(keys) <= 5
    /\ \A m, n \in 1..Len(keys) : m < n => keys[m] # keys[n] /\ counts[m] >= counts[n]

\* C14: TopSources and TopEventIDs have at most 5 entries each, hold no
\* source or event id that the batch has at most once, hold each source or
\* id at most once, and descend by Count.
C14_TopListsWellFormed ==
    Returned =>
        /\ WellFormedTop(TopSourceKeys, TopSourceCounts)
        /\ WellFormedTop(TopEventIdKeys, TopEventIdCounts)
        /\ \A n \in 1..Len(TopSourceKeys) : SourceTotal(TopSourceKeys[n]) > 1
        /\ \A n \in 1..Len(TopEventIdKeys) : EventIdTotal(TopEventIdKeys[n]) > 1

\* the sources of the batch that occur more than once
RepeatedSources ==
    {source \in {SourceOf(summarized_events[n]) : n \in BatchPositions} :
        SourceTotal(source) > 1}

\* more than five sources repeat, another occurs once, both lists have five
\* entries and the list of event ids begins with a higher Count than it ends
\* with
C14_Witness ==
    /\ Returned
    /\ Cardinality(RepeatedSources) > 5
    /\ \E n \in BatchPositions : SourceTotal(SourceOf(summarized_events[n])) = 1
    /\ Len(TopSourceKeys) = 5
    /\ Len(TopEventIdKeys) = 5
    /\ TopEventIdCounts[1] > TopEventIdCounts[5]

\* the sources listed in TopSources
ListedSources == {TopSourceKeys[n] : n \in 1..Len(TopSourceKeys)}

\* the Counts are the totals, and a source of the set that occurs more than
\* once is listed unless five entries with Counts at least as high are
TopSourcesCover(sources) ==
    /\ \A n \in 1..Len(TopSourceKeys) : TopSourceCounts[n] = SourceTotal(TopSourceKeys[n])
    /\ \A source \in sources :
           SourceTotal(source) > 1 =>
               \/ source \in ListedSources
               \/ /\ Len(TopSourceKeys) = 5
                  /\ \A n \in 1..5 : TopSourceCounts[n] >= SourceTotal(source)

\* the ProviderName values the events of the batch carry
ProviderNames == {summarized_events[n].ProviderName : n \in BatchPositions} \ {Absent}

\* C15 as stated: every entry's Count is the number of events with that
\* source, and every source of the batch that occurs more than once is listed
\* unless 5 entries with Counts at least as high are listed.
C15_EveryRepeatedSourceListed == Returned => TopSourcesCover(ProviderNames)

\* C15: every entry's Count is the number of events with that source, and
\* every source other than "Unknown" that occurs more than once is listed
\* unless 5 entries with Counts at least as high are listed.
C15_RepeatedNamedSourcesListed ==
    Returned => TopSourcesCover(ProviderNames \ {StrVal("Unknown")})

\* a repeated source is left out of a full list whose Counts are all higher
C15_Witness ==
    /\ Returned
    /\ Len(TopSourceKeys) = 5
    /\ \E source \in RepeatedSources \ ListedSources :
           /\ source # StrVal("Unknown")
           /\ \A n \in 1..5 : TopSourceCounts[n] > SourceTotal(source)

\* C16: no TopEventIDs entry has the id 0, and the Count of every entry is
\* the number of events that carry that id, so that events whose EventID is
\* missing or 0 add to no Count.
C16_ZeroEventIdExcluded ==
    Returned =>
        \A n \in 1..Len(TopEventIdKeys) :
            /\ TopEventIdKeys[n] # "0"
            /\ TopEventIdCounts[n] = EventIdTotal(TopEventIdKeys[n])

\* a batch with several events of EventID 0 whose TopEventIDs is not empty
C16_Witness ==
    /\ Returned
    /\ Cardinality({n \in BatchPositions : ~HasEventId(summarized_events[n])}) > 1
    /\ TopEventIdKeys # <<>>

\* the first event of the batch with the source, and with the event id
FirstWithSource(source) ==
    summarized_events[CHOOSE m \in BatchPositions :
        /\ SourceOf(summarized_events[m]) = source
        /\ \A k \in 1..(m - 1) : SourceOf(summarized_events[k]) # source]
FirstWithEventId(id) ==
    summarized_events[CHOOSE m \in BatchPositions :
        /\ HasEventId(summarized_events[m]) /\ EventIdOf(summarized_events[m]) = id
        /\ \A k \in 1..(m - 1) :
              ~(HasEventId(summarized_events[k]) /\ EventIdOf(summarized_events[k]) = id)]

\* C17: the LogType of a TopSources entry is the LogName of the first event
\* of the batch with that source, and the LogType of a TopEventIDs entry the
\* LogName of the first event with that id, whatever logs later events of
\* the source or id belong to.
C17_LogTypeOfFirstSight ==
    Returned =>
        /\ \A n \in 1..Len(TopSourceKeys) :
               TopSourcesList[n].LogType = CategoryOf(FirstWithSource(TopSourceKeys[n]))
        /\ \A n \in 1..Len(TopEventIdKeys) :
               TopEventIDsList[n].LogType = CategoryOf(FirstWithEventId(TopEventIdKeys[n]))

\* a listed source and a listed id, each with a later event in another log
\* than the one recorded
C17_Witness ==
    /\ Returned
    /\ \E n \in 1..Len(TopSourceKeys) : \E k \in BatchPositions :
           /\ SourceOf(summarized_events[k]) = TopSourceKeys[n]
           /\ CategoryOf(summarized_events[k]) # TopSourcesList[n].LogType
    /\ \E n \in 1..Len(TopEventIdKeys) : \E k \in BatchPositions :
           /\ EventIdOf(summarized_events[k]) = TopEventIdKeys[n]
           /\ CategoryOf(summarized_events[k]) # TopEventIDsList[n].LogType

---------------------------------------------------------------------------
(* Properties of format_for_llm and _format_event, stated on the lines of  *)
(* the text and on the dictionary the text was made from                   *)

\* the section headers, in the order of the sections
SectionHeaders ==
    <<"## SYSTEM INFORMATION ##", "## ACTIVE NETWORK ADAPTERS ##", "## COLLECTION INFO ##",
      "## EVENT SUMMARY ##", "## AGGREGATED EVENT DETAILS (Sorted by Frequency) ##">>

\* s begins with the text prefix
StartsWith(s, prefix) == Len(s) >= Len(prefix) /\ SubSeq(s, 1, Len(prefix)) = prefix

\* the positions of the lines equal to the text, and of those that begin
\* with it
LinesEqual(line) == {k \in 1..Len(output_lines) : output_lines[k] = line}
LinesFrom(prefix) == {k \in 1..Len(output_lines) : StartsWith(output_lines[k], prefix)}

\* the j-th position of a set of positions
NthPosition(positions, j) ==
    CHOOSE k \in positions : Cardinality({m \in positions : m < k}) = j - 1

\* the groups the text was made from
FormattedGroups == processed_data.AggregatedEvents

\* the header line of a group
GroupHeader(group) ==
    "[" \o group.Level \o "] EventID: " \o PyStr(group.EventID)
        \o " | Source: " \o PyStr(group.ProviderName)
        \o " | Count: " \o ToString(group.OccurrenceCount)

\* C18: the lines that begin with "##" are section headers, each header
\* occurs at most once, the headers that occur stand in the order system
\* information, network adapters, collection info, event summary,
\* aggregated event details, and the lines that begin with "[" are the
\* header lines of the groups, one for each group and in the order of the
\* groups, all after the header of the aggregated event details.
C18_SectionsAndGroupsInOrder ==
    Formatted =>
        /\ \A k \in LinesFrom("##") : \E h \in 1..5 : output_lines[k] = SectionHeaders[h]
        /\ \A h \in 1..5 : Cardinality(LinesEqual(SectionHeaders[h])) <= 1
        /\ \A g, h \in 1..5 :
               g < h => \A a \in LinesEqual(SectionHeaders[g]) :
                            \A b \in LinesEqual(SectionHeaders[h]) : a < b
        /\ Cardinality(LinesFrom("[")) = Len(FormattedGroups)
        /\ \A j \in 1..Len(FormattedGroups) :
               /\ output_lines[NthPosition(LinesFrom("["), j)] = GroupHeader(FormattedGroups[j])
               /\ \E a \in LinesEqual(SectionHeaders[5]) : a < NthPosition(LinesFrom("["), j)

\* a text with all five headers and two groups
C18_Witness ==
    /\ Formatted
    /\ \A h \in 1..5 : LinesEqual(SectionHeaders[h]) # {}
    /\ Len(FormattedGroups) = 2
    /\ GroupHeader(FormattedGroups[1]) # GroupHeader(FormattedGroups[2])

\* the lines of the j-th group: from the line after its header line to the
\* line before the next group's header line, or to the last line
GroupLines(j) ==
    LET first == NthPosition(LinesFrom("["), j) + 1
        last == IF j < Cardinality(LinesFrom("[")) THEN NthPosition(LinesFrom("["), j + 1) - 1
                ELSE Len(output_lines)
    IN SubSeq(output_lines, first, last)

\* the timestamp lines among the lines of the j-th group
TimestampLines(j) ==
    SelectSeq(GroupLines(j), LAMBDA line : StartsWith(line, "  First: ") \/ StartsWith(line, "  Time: "))

\* the lines of the j-th group are its message line, the timestamp line
\* given, and the blank line
HasTimestampLine(j, line) ==
    /\ Len(GroupLines(j)) = 3
    /\ StartsWith(GroupLines(j)[1], "  Msg: ")
    /\ GroupLines(j)[2] = line
    /\ GroupLines(j)[3] = ""
    /\ TimestampLines(j) = <<line>>

\* the timestamp line of a group with timestamps: "First | Last" when the
\* group counts more than one event, "Time" otherwise
TimestampLineOf(group) ==
    IF group.OccurrenceCount > 1
    THEN "  First: " \o group.FirstTimestamp.s \o " | Last: " \o group.LastTimestamp.s
    ELSE "  Time: " \o group.LastTimestamp.s

\* C19 as stated: every group has exactly one timestamp line, right after
\* its message line: a "First: ... | Last: ..." line when OccurrenceCount is
\* above 1 and a "Time: ..." line otherwise.
C19_AlwaysOneTimestampLine ==
    Formatted =>
        \A j \in 1..Len(FormattedGroups) :
            /\ Len(TimestampLines(j)) = 1
            /\ StartsWith(GroupLines(j)[2],
                          IF FormattedGroups[j].OccurrenceCount > 1 THEN "  First: "
                          ELSE "  Time: ")

\* C19: a group that has a LastTimestamp has exactly one timestamp line,
\* right after its message line: "First: ... | Last: ..." when
\* OccurrenceCount is above 1, "Time: ..." otherwise; a group without
\* timestamps has its message line and no timestamp line.
C19_OneTimestampLineWhenTimed ==
    Formatted =>
        \A j \in 1..Len(FormattedGroups) :
            IF FormattedGroups[j].LastTimestamp # None
            THEN HasTimestampLine(j, TimestampLineOf(FormattedGroups[j]))
            ELSE /\ Len(GroupLines(j)) = 2
                 /\ StartsWith(GroupLines(j)[1], "  Msg: ")
                 /\ GroupLines(j)[2] = ""

\* a group of two events with different timestamps was written with its
\* "First | Last" line
C19_Witness ==
    /\ Formatted
    /\ Len(FormattedGroups) = 1
    /\ FormattedGroups[1].OccurrenceCount = 2
    /\ FormattedGroups[1].FirstTimestamp # FormattedGroups[1].LastTimestamp
    /\ Len(TimestampLines(1)) = 1
    /\ StartsWith(TimestampLines(1)[1], "  First: ")

---------------------------------------------------------------------------
(* Properties of process_logs on documents without events *)

\* the document is a dictionary that has no Events key
WithoutEvents(data) == IF IsDict(data) THEN data.Events = Absent ELSE FALSE

\* C20: for a dictionary without an Events key, with or without other keys,
\* process_logs does not raise, and the dictionary it returns has no
\* aggregated events and counts 0 events.
C20_MissingEventsIsEmptyBatch ==
    WithoutEvents(log_data) =>
        /\ pc # "raised"
        /\ pc \in {"processed", "formatted"} =>
               /\ processed_data.AggregatedEvents = <<>>
               /\ processed_data.EventSummary.TotalEvents = 0

---------------------------------------------------------------------------
(* The summary and the groups process_logs makes from one batch *)

\* process_logs has returned
Processed == pc \in {"processed", "formatted"}

RECURSIVE SumCounts(_, _)
\* the sum of the first n values of a dict of counts
SumCounts(items, n) == IF n = 0 THEN 0 ELSE SumCounts(items, n - 1) + items[n].count

RECURSIVE SumOccurrenceCountOfLevel(_, _, _)
\* the sum of OccurrenceCount over those of the first n groups whose Level
\* is l
SumOccurrenceCountOfLevel(aggregated, n, l) ==
    IF n = 0 THEN 0
    ELSE SumOccurrenceCountOfLevel(aggregated, n - 1, l)
         + (IF aggregated[n].Level = l THEN aggregated[n].OccurrenceCount ELSE 0)

\* C26: in the dictionary process_logs returns, TotalEvents is the sum of
\* OccurrenceCount over the groups, the sum of the ByLogType values and the
\* sum of the ByLevel values, and for each of the five levels ByLevel (0 for
\* a missing key) is the sum of OccurrenceCount over the groups of that Level.
C26_SummaryAgreesWithGroups ==
    Processed =>
        LET groups == processed_data.AggregatedEvents
            summary == processed_data.EventSummary
        IN /\ summary.TotalEvents = SumOccurrenceCount(groups, Len(groups))
           /\ summary.TotalEvents = SumCounts(summary.ByLogType, Len(summary.ByLogType))
           /\ summary.TotalEvents = SumCounts(summary.ByLevel, Len(summary.ByLevel))
           /\ \A l \in CanonicalLevels \cup KeysOf(summary.ByLevel) :
                  CountOf(summary.ByLevel, l) = SumOccurrenceCountOfLevel(groups, Len(groups), l)

\* two events of different levels were counted and grouped
C26_Witness ==
    /\ Processed
    /\ Len(processed_data.AggregatedEvents) = 2
    /\ processed_data.AggregatedEvents[1].Level # processed_data.AggregatedEvents[2].Level
    /\ processed_data.EventSummary.TotalEvents = 2

---------------------------------------------------------------------------
(* Properties of process_log_file and process_logs on invalid documents *)

\* the document is invalid: the file holds a JSON value that is no
\* dictionary, or a dictionary whose Events is present and no list; or
\* process_logs is called on a value that is no dictionary
InvalidBatch ==
    IF input_file = None THEN ~IsDict(log_data)
    ELSE IF input_file.t # "json" THEN FALSE
    ELSE IF ~IsDict(input_file.value) THEN TRUE
    ELSE input_file.value.Events # Absent /\ ~IsList(input_file.value.Events)

---------------------------------------------------------------------------
(* The calls leave their arguments and the processor alone *)

\* a step of process_logs leaves log_data (the Events list and every event
\* dictionary in it) as it was, a step of format_for_llm leaves
\* processed_data (the summary and every group) as it was, and no step
\* changes the processor's attribute
ArgumentsUnchanged ==
    /\ pc \in {"call", "formatted"} => log_data' = log_data
    /\ pc \in {"processed", "processed again"} => processed_data' = processed_data
    /\ verbose' = verbose

\* the second calls returned what the first calls returned
RepeatedCallsAgree ==
    /\ pc \in {"processed again", "formatted again"} => processed_again = processed_data
    /\ pc = "formatted again" => formatted_again = formatted_text

---------------------------------------------------------------------------
(* LLMManager.format_log_prompt (animus_cli/llm_manager.py): the events    *)
(* selected for a query, their text, and the prompt they are fitted into.  *)
(* log_data is the collector's dictionary with SystemInfo (OS, Computer)   *)
(* and Events (the System, Application and Security lists).                *)

\* self.system_prompt as __init__ sets it
SystemPrompt ==
    "You are Animus, the observant AI spirit residing within this Windows machine, built using Llama technology. "
    \o "Your purpose is to analyze the provided Windows Event Logs and system information to help diagnose issues and suggest potential solutions. "
    \o "If the user's input is about **Animus itself** (e.g. 'who are you', 'help', "
    \o "'what can you do') or is simply a greeting, **answer directly without using the logs**. "
    \o "Otherwise, follow the instructions below:"
    \o "Examine the logs for patterns, correlate related events if possible, and provide helpful insights based *only* on the information given. "
    \o "If the logs lack the necessary details to answer definitively, state that clearly. Do not invent information. "
    \o "If you identify a specific problem, suggest concise, actionable remediation steps a user could take."

\* sub in s
HasSubstring(s, sub) ==
    \E i \in 1..(Len(s) - Len(sub) + 1) : SubSeq(s, i, i + Len(sub) - 1) = sub

UpperChars == {SubSeq(UpperCase, i, i) : i \in 1..Len(UpperCase)}

RECURSIVE LowerText(_)
\* s.lower() of a long text, halved until single characters are left
LowerText(s) ==
    IF Len(s) <= 1 THEN (IF s \in UpperChars THEN LowerChar(s) ELSE s)
    ELSE LowerText(SubSeq(s, 1, Len(s) \div 2)) \o LowerText(SubSeq(s, Len(s) \div 2 + 1, Len(s)))

RECURSIVE Words(_)
\* s.split()
Words(s) ==
    LET text == LStrip(s)
        stops == {i \in 1..Len(text) : SubSeq(text, i, i) \in Whitespace} \cup {Len(text) + 1}
        stop == CHOOSE i \in stops : \A j \in stops : i <= j
    IN IF text = "" THEN <<>>
       ELSE <<SubSeq(text, 1, stop - 1)>> \o Words(SubSeq(text, stop, Len(text)))

\* seq[:n]
Take(seq, n) == SubSeq(seq, 1, IF n < Len(seq) THEN n ELSE Len(seq))

\* the dictionaries of the collector's document
OsDict(caption, version, build, architecture, last_boot, uptime) ==
    [t |-> "dict", Caption |-> caption, Version |-> version, BuildNumber |-> build,
     OSArchitecture |-> architecture, LastBootUpTime |-> last_boot, UpTime |-> uptime]
ComputerDict(manufacturer, model) ==
    [t |-> "dict", Manufacturer |-> manufacturer, Model |-> model]
CollectedSystemInfo(os_info, computer_info) ==
    [t |-> "dict", OS |-> os_info, Computer |-> computer_info]
EventsDict(system_events, app_events, security_events) ==
    [t |-> "dict", System |-> system_events, Application |-> app_events,
     Security |-> security_events]
CollectedLogs(system_info, events_dict) ==
    [t |-> "dict", SystemInfo |-> system_info, Events |-> events_dict]
EmptyDict(keys) == [k \in keys \cup {"t"} |-> IF k = "t" THEN "dict" ELSE Absent]
NoSystemInfo == EmptyDict({"OS", "Computer"})
NoOsInfo == EmptyDict({"Caption", "Version", "BuildNumber", "OSArchitecture", "LastBootUpTime", "UpTime"})
NoComputerInfo == EmptyDict({"Manufacturer", "Model"})
NoEvents == EmptyDict({"System", "Application", "Security"})

\* json.dumps of a str, int or None value; the texts of the model hold no
\* character that json escapes
JsonValue(v) ==
    CASE v.t = "str" -> "\"" \o v.s \o "\""
      [] v.t = "int" -> ToString(v.n)
      [] OTHER -> "null"

\* the keys of an event dictionary in the order the collector writes them
EventKeys == <<"TimeCreated", "LogName", "Level", "EventID", "ProviderName", "Message">>

JsonItem(event, key) == "\"" \o key \o "\": " \o JsonValue(event[key])

\* json.dumps(event)
JsonDumps(event) ==
    LET keys == SelectSeq(EventKeys, LAMBDA key : event[key] # Absent)
    IN "{" \o Join([i \in 1..Len(keys) |-> JsonItem(event, keys[i])], ", ") \o "}"

\* all_event_lists, one list after the other
AllEventLists(data) ==
    LET events_dict == Get(data, "Events", NoEvents)
    IN Get(events_dict, "System", ListVal(<<>>)).items
       \o Get(events_dict, "Application", ListVal(<<>>)).items
       \o Get(events_dict, "Security", ListVal(<<>>)).items

LevelLower(event) == LowerText(Get(event, "Level", StrVal("")).s)
IsErrorEvent(event) ==
    HasSubstring(LevelLower(event), "critical") \/ HasSubstring(LevelLower(event), "error")
IsWarningEvent(event) == ~IsErrorEvent(event) /\ HasSubstring(LevelLower(event), "warning")

ErrorEvents(data) == SelectSeq(AllEventLists(data), IsErrorEvent)
WarningEvents(data) == SelectSeq(AllEventLists(data), IsWarningEvent)

\* the limits of a first attempt and of a retry
RelevantLimit == 15
ErrorLimit == 15
WarningLimit == 10
ReducedRelevantLimit == 5
ReducedErrorLimit == 5
ReducedWarningLimit == 3
\* a query term counts when it is longer than this
ShortTerm == 3

\* the query terms that are looked for
QueryTerms(question) ==
    SelectSeq(Words(LowerText(question)), LAMBDA term : Len(term) > ShortTerm)

IsRelevantTo(event_text, terms) == \E i \in 1..Len(terms) : HasSubstring(event_text, terms[i])

RelevantEvents(data, question) ==
    LET terms == QueryTerms(question)
    IN SelectSeq(AllEventLists(data),
                 LAMBDA event : IsRelevantTo(LowerText(JsonDumps(event)), terms))

SelectedRawEvents(data, question, reduced) ==
    Take(RelevantEvents(data, question), IF reduced THEN ReducedRelevantLimit ELSE RelevantLimit)
    \o Take(ErrorEvents(data), IF reduced THEN ReducedErrorLimit ELSE ErrorLimit)
    \o Take(WarningEvents(data), IF reduced THEN ReducedWarningLimit ELSE WarningLimit)

EventUniqueId(event) ==
    PyStr(Get(event, "TimeCreated", StrVal(""))) \o "-" \o PyStr(Get(event, "EventID", StrVal("")))

\* the selected events without those whose id an earlier one has
Deduplicated(selected) ==
    LET first == {i \in 1..Len(selected) :
                    \A j \in 1..(i - 1) : EventUniqueId(selected[j]) # EventUniqueId(selected[i])}
        kept == SelectSeq([i \in 1..Len(selected) |-> i], LAMBDA i : i \in first)
    IN [k \in 1..Len(kept) |-> selected[kept[k]]]

UniqueEvents(data, question, reduced) == Deduplicated(SelectedRawEvents(data, question, reduced))

\* event_str
EventStr(event) ==
    "Time: " \o Shown(event, "TimeCreated", "Unknown")
    \o ", Log: " \o Shown(event, "LogName", "Unknown")
    \o ", Level: " \o Shown(event, "Level", "Unknown")
    \o ", EventID: " \o Shown(event, "EventID", "Unknown")
    \o ", Source: " \o Shown(event, "ProviderName", "Unknown")
    \o "\nMessage: " \o StrStrip(Get(event, "Message", StrVal("No message")).s)

FormattedEventStrings(data, question, reduced) ==
    LET unique_events == UniqueEvents(data, question, reduced)
    IN [i \in 1..Len(unique_events) |-> EventStr(unique_events[i])]

SystemInfoPrompt(data) ==
    LET system_info == Get(data, "SystemInfo", NoSystemInfo)
        os_info == Get(system_info, "OS", NoOsInfo)
        computer_info == Get(system_info, "Computer", NoComputerInfo)
    IN "SYSTEM INFORMATION:\n"
       \o "OS: " \o Shown(os_info, "Caption", "Unknown") \o " " \o Shown(os_info, "Version", "")
       \o " (Build: " \o Shown(os_info, "BuildNumber", "Unknown") \o ")\n"
       \o "Architecture: " \o Shown(os_info, "OSArchitecture", "Unknown") \o "\n"
       \o "Computer: " \o Shown(computer_info, "Manufacturer", "Unknown") \o " "
       \o Shown(computer_info, "Model", "") \o "\n"
       \o "Last Boot: " \o Shown(os_info, "LastBootUpTime", "Unknown") \o "\n"
       \o "Current Uptime: " \o Shown(os_info, "UpTime", "Unknown")

ListLen(d, k) == Len(Get(d, k, ListVal(<<>>)).items)

LogSummaryPrompt(data) ==
    LET events_dict == Get(data, "Events", NoEvents)
    IN "LOG SUMMARY:\n"
       \o "System Events: " \o ToString(ListLen(events_dict, "System")) \o "\n"
       \o "Application Events: " \o ToString(ListLen(events_dict, "Application")) \o "\n"
       \o "Security Events: " \o ToString(ListLen(events_dict, "Security")) \o "\n"
       \o "Total Errors/Critical: " \o ToString(Len(ErrorEvents(data))) \o "\n"
       \o "Total Warnings: " \o ToString(Len(WarningEvents(data)))

BasePrompt(data) ==
    "<|system|>\n" \o SystemPrompt \o "</s>\n"
    \o "<|user|>\nI need you to analyze the status of this system based on its event logs. Here is the current system context:\n\n"
    \o SystemInfoPrompt(data) \o "</s>\n"
    \o "<|assistant|>\nUnderstood. I am monitoring the system according to the logs you provide. Please present the relevant log data and your specific question.</s>\n"
    \o "<|user|>\nHere is a summary and selection of recent notable events:\n\n"
    \o LogSummaryPrompt(data) \o "\n\nNOTABLE EVENTS:\n"

EndPrompt(question) ==
    "\n\nBased on the system information and the logs provided above, please analyze the following query:\n"
    \o question \o "</s>\n<|assistant|>\n"

FixedPartsLen(data, question) == Len(BasePrompt(data)) + Len(EndPrompt(question))

BufferTokens == 100

\* twice (context_size - fixed_parts_len / 3.5 - buffer_tokens) * 3.5, which is whole
TwiceEventChars(size, fixed_parts_len) == 7 * size - 2 * fixed_parts_len - 7 * BufferTokens

\* what the float arithmetic can lose: when the exact product is a whole
\* number the float product can fall just below it, and int() then gives
\* one less
FloatLosses(size, fixed_parts_len) ==
    IF TwiceEventChars(size, fixed_parts_len) >= 2 /\ TwiceEventChars(size, fixed_parts_len) % 2 = 0
    THEN {0, 1}
    ELSE {0}

\* max_event_chars: int() drops the fraction, and a negative value becomes 0
MaxEventChars(size, fixed_parts_len, loss) ==
    IF TwiceEventChars(size, fixed_parts_len) < 0 THEN 0
    ELSE TwiceEventChars(size, fixed_parts_len) \div 2 - loss

Separator == "\n---\n"
NoEventsText == "(No notable events selected or fit within context limit)"
OmittedMarker == "[... some events omitted due to context limits ...]"

RECURSIVE FitEventsSkipping(_, _, _, _)
\* a faulty loop, which goes on to the next event when one does not fit
FitEventsSkipping(strings, i, chars_so_far, max_chars) ==
    IF i > Len(strings) THEN <<>>
    ELSE IF chars_so_far + Len(strings[i]) + Len(Separator) <= max_chars
         THEN <<strings[i]>> \o FitEventsSkipping(strings, i + 1,
                    chars_so_far + Len(strings[i]) + Len(Separator), max_chars)
         ELSE FitEventsSkipping(strings, i + 1, chars_so_far, max_chars)

RECURSIVE FitEvents(_, _, _, _)
\* the loop over formatted_event_strings from the i-th on: the strings
\* added to included_event_text, until one does not fit
FitEvents(strings, i, chars_so_far, max_chars) ==
    IF i > Len(strings) THEN <<>>
    ELSE IF chars_so_far + Len(strings[i]) + Len(Separator) <= max_chars
         THEN <<strings[i]>> \o FitEvents(strings, i + 1,
                    chars_so_far + Len(strings[i]) + Len(Separator), max_chars)
         ELSE <<>>

\* included_event_text after the loop: every string added with its separator
WithSeparators(strings) ==
    Join([i \in 1..Len(strings) |-> strings[i] \o Separator], "")

\* current_event_chars and events_omitted after the loop
CurrentEventChars(strings, max_chars) == Len(WithSeparators(FitEvents(strings, 1, 0, max_chars)))
EventsOmitted(strings, max_chars) == Len(FitEvents(strings, 1, 0, max_chars)) < Len(strings)

\* a faulty ending, which writes the marker also when no event was included
EventTextAlwaysMarked(strings, max_chars) ==
    LET included == FitEvents(strings, 1, 0, max_chars)
        text == WithSeparators(included)
        stripped == IF EndsWith(text, Separator) THEN SubSeq(text, 1, Len(text) - Len(Separator))
                    ELSE text
    IN IF EventsOmitted(strings, max_chars) THEN stripped \o Separator \o OmittedMarker
       ELSE IF stripped = "" THEN NoEventsText
       ELSE stripped

\* included_event_text as it goes into the prompt
IncludedEventText(strings, max_chars) ==
    LET included == FitEvents(strings, 1, 0, max_chars)
        text == WithSeparators(included)
        stripped == IF EndsWith(text, Separator) THEN SubSeq(text, 1, Len(text) - Len(Separator))
                    ELSE text
    IN IF stripped = "" THEN NoEventsText
       ELSE IF EventsOmitted(strings, max_chars) THEN stripped \o Separator \o OmittedMarker
       ELSE stripped

\* format_log_prompt raises AttributeError when SystemInfo, OS, Computer or
\* Events is there but is None
FormatLogPromptRaised(data) ==
    IF data.SystemInfo = None \/ data.Events = None THEN TRUE
    ELSE IF data.SystemInfo = Absent THEN FALSE
    ELSE data.SystemInfo.OS = None \/ data.SystemInfo.Computer = None

\* format_log_prompt at its return: final_prompt and the locals of the loop
FormatLogPrompt(size, question, data, reduced, loss) ==
    LET strings == FormattedEventStrings(data, question, reduced)
        base_prompt == BasePrompt(data)
        end_prompt == EndPrompt(question)
        max_chars == MaxEventChars(size, Len(base_prompt) + Len(end_prompt), loss)
    IN [formatted_event_strings |-> strings,
        max_event_chars |-> max_chars,
        current_event_chars |-> CurrentEventChars(strings, max_chars),
        events_omitted |-> EventsOmitted(strings, max_chars),
        final_prompt |-> base_prompt \o IncludedEventText(strings, max_chars) \o end_prompt]

---------------------------------------------------------------------------
(* The call of format_log_prompt *)

MaxErrors == 16
MaxWarnings == 11

TwoDigits(n) == IF n < 10 THEN "0" \o ToString(n) ELSE ToString(n)

\* the i-th event of a log: every third message is a long one with blanks
\* around it, and the fourth event has the time and the id of the third
LoggedEvent(log_name, lv, i) ==
    Event(StrVal(log_name),
          StrVal(IF i % 2 = 0 THEN "disk" ELSE "Service Control Manager"),
          IntVal(IF i = 4 THEN 7003 ELSE 7000 + i),
          StrVal(lv),
          StrVal("2024-03-01T12:" \o TwoDigits(IF i = 4 THEN 3 ELSE i) \o ":00"),
          StrVal(IF i % 3 = 1
                 THEN "  The device Harddisk0 has a bad block and the request was retried.  "
                 ELSE "Service stopped."))

ErrorLevelOf(i) == IF i % 5 = 0 THEN "Critical" ELSE "Error"

SystemEvents(n) == [i \in 1..n |-> LoggedEvent("System", ErrorLevelOf(i), i)]
ApplicationEvents(n) ==
    [i \in 1..n |-> LoggedEvent("Application", IF i = 2 THEN "Information" ELSE "Warning", 20 + i)]

FullSystemInfoOfHost ==
    CollectedSystemInfo(
        OsDict(StrVal("Microsoft Windows 11 Pro"), StrVal("10.0.22631"), StrVal("22631"),
               StrVal("64-bit"), StrVal("2024-02-28T08:00:00"), StrVal("2 days")),
        ComputerDict(StrVal("Dell Inc."), StrVal("XPS 13")))

\* (number of System events, number of Application events) of the logs
EventCounts ==
    {<<0, 0>>, <<1, 0>>, <<2, 1>>, <<4, 3>>, <<6, 4>>, <<MaxErrors, 0>>,
     <<MaxErrors, MaxWarnings>>}

LogsPool ==
    {CollectedLogs(info, EventsDict(ListVal(SystemEvents(c[1])), ListVal(ApplicationEvents(c[2])), Absent)) :
        info \in {Absent, FullSystemInfoOfHost}, c \in EventCounts}
    \cup {CollectedLogs(Absent, Absent), CollectedLogs(None, NoEvents),
          CollectedLogs(CollectedSystemInfo(None, Absent), NoEvents),
          CollectedLogs(Absent, None)}

QueryPool == {"", "Why did the DISK stop?", "critical"}

\* context sizes: too small for any event, the default, and sizes that
\* leave room for some events
MaxContextSteps == 3
SmallContext == 605
ContextStep == 45
ContextSizes == {128, 2048} \cup {SmallContext + ContextStep * k : k \in 0..MaxContextSteps}

InitPrompt ==
    /\ pc = "call"
    /\ context_size \in ContextSizes
    /\ query \in QueryPool
    /\ prompt_log_data \in LogsPool
    /\ use_reduced_events = FALSE
    /\ formatted_event_strings = <<>>
    /\ max_event_chars = 0
    /\ current_event_chars = 0
    /\ events_omitted = FALSE
    /\ final_prompt = ""
    /\ NormalizeIdle /\ AggregateIdle /\ SummaryIdle /\ PipelineIdle /\ FileIdle
    /\ RepeatIdle /\ ManagerIdle /\ CliIdle

FormatLogPromptReturns ==
    /\ pc = "call"
    /\ ~FormatLogPromptRaised(prompt_log_data)
    /\ \E reduced \in BOOLEAN, loss \in FloatLosses(context_size, FixedPartsLen(prompt_log_data, query)) :
          LET at_return == FormatLogPrompt(context_size, query, prompt_log_data, reduced, loss)
          IN /\ use_reduced_events' = reduced
             /\ formatted_event_strings' = at_return.formatted_event_strings
             /\ max_event_chars' = at_return.max_event_chars
             /\ current_event_chars' = at_return.current_event_chars
             /\ events_omitted' = at_return.events_omitted
             /\ final_prompt' = at_return.final_prompt
    /\ pc' = "returned"
    /\ UNCHANGED <<context_size, query, prompt_log_data, normalize_vars, aggregate_vars, summary_vars,
                   pipeline_vars, file_vars, repeat_vars, manager_vars, cli_vars>>

FormatLogPromptRaises ==
    /\ pc = "call"
    /\ FormatLogPromptRaised(prompt_log_data)
    /\ pc' = "raised"
    /\ UNCHANGED <<prompt_vars, normalize_vars, aggregate_vars, summary_vars,
                   pipeline_vars, file_vars, repeat_vars, manager_vars, cli_vars>>

NextPrompt == FormatLogPromptReturns \/ FormatLogPromptRaises

SpecPrompt == InitPrompt /\ [][NextPrompt]_vars

---------------------------------------------------------------------------
(* Properties of format_log_prompt, stated on the prompt returned *)

\* the prompt between its fixed opening and its fixed closing
PromptEventText ==
    SubSeq(final_prompt, Len(BasePrompt(prompt_log_data)) + 1,
           Len(final_prompt) - Len(EndPrompt(query)))

\* the first k event strings, "\n---\n" between them
FirstEventsText(strings, k) == Join(Take(strings, k), Separator)

\* how many of the event strings the text shows from the first on
IncludedCount(strings, text) ==
    Cardinality({k \in 1..Len(strings) : StartsWith(text, FirstEventsText(strings, k))})

RECURSIVE CharsOfFirst(_, _)
\* the length of the first k event strings, each with its separator
CharsOfFirst(strings, k) ==
    IF k = 0 THEN 0 ELSE CharsOfFirst(strings, k - 1) + Len(strings[k]) + Len(Separator)

\* the text is the first k events and nothing of a later one: those events
\* alone, or with the marker after them, or the text that stands for no event
ShowsOnlyFirstEvents(strings, text, k) ==
    IF k = 0 THEN text = NoEventsText
    ELSE \/ text = FirstEventsText(strings, k)
         \/ text = FirstEventsText(strings, k) \o Separator \o OmittedMarker

\* C27: the events in the prompt are a prefix of the de-duplicated selected
\* events (formatted_event_strings is their text); they were added in order
\* while the running total of event length plus separator length stayed
\* within max_event_chars, the first event that does not fit ends the
\* inclusion (no later, shorter event is included), the total of the
\* included events never exceeds max_event_chars, and max_event_chars is
\* never negative
C27_IncludedEventsArePrefixWithinLimit ==
    pc = "returned" =>
        LET text == PromptEventText
            included == IncludedCount(formatted_event_strings, text)
        IN /\ max_event_chars >= 0
           /\ ShowsOnlyFirstEvents(formatted_event_strings, text, included)
           /\ current_event_chars = CharsOfFirst(formatted_event_strings, included)
           /\ CharsOfFirst(formatted_event_strings, included) <= max_event_chars
           /\ included < Len(formatted_event_strings)
                => CharsOfFirst(formatted_event_strings, included + 1) > max_event_chars

\* an event did not fit after some were included, and a later, shorter
\* event would have fitted in the room that was left
C27_Witness ==
    /\ pc = "returned"
    /\ LET included == IncludedCount(formatted_event_strings, PromptEventText)
       IN /\ included > 0
          /\ included + 1 < Len(formatted_event_strings)
          /\ \E j \in (included + 2)..Len(formatted_event_strings) :
                CharsOfFirst(formatted_event_strings, included)
                + Len(formatted_event_strings[j]) + Len(Separator) <= max_event_chars

HasOmittedMarker == HasSubstring(final_prompt, OmittedMarker)

\* C28 as stated: the prompt holds the marker whenever a selected event was
\* left out for lack of space, and never when all selected events are in it
C28_MarkerWheneverEventsLeftOut ==
    pc = "returned" =>
        LET included == IncludedCount(formatted_event_strings, PromptEventText)
        IN HasOmittedMarker <=> included < Len(formatted_event_strings)

\* C28, amended: the prompt holds the marker whenever a selected event was
\* left out for lack of space and at least one was included; when no event
\* was included the prompt holds "(No notable events selected or fit within
\* context limit)" in the place of the events and no marker; the marker is
\* never there when all selected events are in the prompt
C28_MarkerWhenSomeEventsIncluded ==
    pc = "returned" =>
        LET text == PromptEventText
            included == IncludedCount(formatted_event_strings, text)
        IN /\ events_omitted <=> included < Len(formatted_event_strings)
           /\ HasOmittedMarker <=> (included < Len(formatted_event_strings) /\ included > 0)
           /\ included = 0 => text = NoEventsText

\* not even the first selected event fitted
C28_Witness ==
    /\ pc = "returned"
    /\ Len(formatted_event_strings) > 1
    /\ IncludedCount(formatted_event_strings, PromptEventText) = 0
    /\ max_event_chars > 0

---------------------------------------------------------------------------
(* LLMManager (animus_cli/llm_manager.py): load_model, unload_model and    *)
(* generate_response.  The file system, the llama_cpp import, the Llama    *)
(* constructor and the inference are the environment of a call.            *)

\* the object the n-th successful call of the Llama constructor returned
LlamaModel(n) == [t |-> "Llama", n |-> n]

\* the model file the caller names and the one find_model_path looks for
GivenPath == "custom.gguf"
CommonPath == "models/llama-3.2-3b-instruct.Q4_0.gguf"

\* the environment of load_model: the model files that exist, whether
\* llama_cpp can be imported, whether the Llama constructor returns
LoadEnvironments ==
    [existing : SUBSET {GivenPath, CommonPath}, importable : BOOLEAN, constructs : BOOLEAN]

\* the manager: self.model_path ("" for None), self.llm, self._model_loaded,
\* and the number of Llama objects made for it so far
ManagerOf(path, llama, loaded, created) ==
    [model_path |-> path, llm |-> llama, model_loaded |-> loaded, models_created |-> created]

\* how a call ends: the manager after it, the class of the exception raised
\* ("" when the call returned) and the value returned as text
Ended(self, exception, value) == [self |-> self, raised |-> exception, returned |-> value]

\* find_model_path() when self.model_path is not set
FindModelPath(env) == IF CommonPath \in env.existing THEN CommonPath ELSE ""

\* load_model(model_path), path_given being the argument ("" for None)
LoadModel(self, path_given, env) ==
    IF self.model_loaded /\ self.llm # None THEN Ended(self, "", "True")
    ELSE LET given == IF path_given # "" THEN path_given ELSE self.model_path
             path == IF given = "" THEN FindModelPath(env) ELSE given
             with_path == [self EXCEPT !.model_path = path]
         IN IF path = "" \/ path \notin env.existing \/ ~env.importable \/ ~env.constructs
            THEN Ended(with_path, "LlamaModelError", "")
            ELSE Ended(ManagerOf(path, LlamaModel(self.models_created + 1), TRUE,
                                 self.models_created + 1), "", "True")

\* a faulty unload_model, which forgets to clear _model_loaded
UnloadModelKeepingFlag(self) ==
    IF self.llm # None THEN Ended([self EXCEPT !.llm = None], "", "None")
    ELSE Ended(self, "", "None")

\* unload_model()
UnloadModel(self) ==
    IF self.llm # None
    THEN Ended([self EXCEPT !.llm = None, !.model_loaded = FALSE], "", "None")
    ELSE Ended(self, "", "None")

\* what self.llm(prompt) does: it returns a completion dictionary with a
\* text, or one whose choices are empty, or raises with a message
Completion(text) == [t |-> "completion", text |-> text]
NoChoices == [t |-> "no choices", text |-> ""]
Failure(message) == [t |-> "exception", text |-> message]

\* the test of the exception message for a context overflow
IsContextOverflow(message) ==
    LET error_message == LowerText(message)
    IN \/ (HasSubstring(error_message, "requested tokens")
           /\ HasSubstring(error_message, "exceed context window"))
       \/ (HasSubstring(error_message, "n_batch =") /\ HasSubstring(error_message, "exceeds n_ctx"))
       \/ HasSubstring(error_message, "prompt is too long")

\* generate_response(prompt): the model is loaded first when there is none
GenerateResponse(self, env, inference) ==
    LET loaded == IF ~self.model_loaded \/ self.llm = None THEN LoadModel(self, "", env)
                  ELSE Ended(self, "", "True")
    IN IF loaded.raised # "" THEN loaded
       ELSE IF inference.t = "completion" THEN Ended(loaded.self, "", inference.text)
       ELSE IF inference.t = "no choices" THEN Ended(loaded.self, "LlamaModelError", "")
       ELSE IF IsContextOverflow(inference.text) THEN Ended(loaded.self, "ContextOverflowError", "")
       ELSE Ended(loaded.self, "LlamaModelError", "")

\* the messages the inference fails with
FailureMessages ==
    {"Requested tokens (2100) exceed context window of 2048",
     "Requested tokens (2100) are too many",
     "n_batch = 4096 exceeds n_ctx",
     "Prompt is too long",
     "CUDA out of memory",
     "llama_decode returned -1"}

Inferences == {Completion("The disk reports bad blocks."), NoChoices} \cup {Failure(m) : m \in FailureMessages}

---------------------------------------------------------------------------
(* The calls on one LLMManager *)

MaxModels == 8

Self == ManagerOf(model_path, llm, model_loaded, models_created)

InitManager ==
    /\ pc = "created"
    /\ model_path \in {"", GivenPath}
    /\ llm = None
    /\ model_loaded = FALSE
    /\ models_created = 0
    /\ raised = ""
    /\ returned = ""
    /\ generate_calls = <<>>
    /\ NormalizeIdle /\ AggregateIdle /\ SummaryIdle /\ PipelineIdle /\ FileIdle
    /\ RepeatIdle /\ PromptIdle /\ CliIdle

\* the call has ended: the manager's attributes and how it ended
CallEnds(end) ==
    /\ model_path' = end.self.model_path
    /\ llm' = end.self.llm
    /\ model_loaded' = end.self.model_loaded
    /\ models_created' = end.self.models_created
    /\ raised' = end.raised
    /\ returned' = end.returned

LoadModelCall ==
    /\ pc \in {"created", "load_model", "unload_model", "generate_response"}
    /\ models_created < MaxModels
    /\ \E path \in {"", GivenPath}, env \in LoadEnvironments : CallEnds(LoadModel(Self, path, env))
    /\ pc' = "load_model"
    /\ UNCHANGED <<generate_calls, normalize_vars, aggregate_vars, summary_vars, pipeline_vars,
                   file_vars, repeat_vars, prompt_vars, cli_vars>>

UnloadModelCall ==
    /\ pc \in {"created", "load_model", "unload_model", "generate_response"}
    /\ CallEnds(UnloadModel(Self))
    /\ pc' = "unload_model"
    /\ UNCHANGED <<generate_calls, normalize_vars, aggregate_vars, summary_vars, pipeline_vars,
                   file_vars, repeat_vars, prompt_vars, cli_vars>>

GenerateResponseCall ==
    /\ pc \in {"created", "load_model", "unload_model", "generate_response"}
    /\ models_created < MaxModels
    /\ \E env \in LoadEnvironments, inference \in Inferences :
          CallEnds(GenerateResponse(Self, env, inference))
    /\ pc' = "generate_response"
    /\ UNCHANGED <<generate_calls, normalize_vars, aggregate_vars, summary_vars, pipeline_vars,
                   file_vars, repeat_vars, prompt_vars, cli_vars>>

NextManager == LoadModelCall \/ UnloadModelCall \/ GenerateResponseCall

SpecManager == InitManager /\ [][NextManager]_vars

---------------------------------------------------------------------------
(* Properties of load_model, unload_model and generate_response *)

Loaded == model_loaded /\ llm # None
Unloaded == ~model_loaded /\ llm = None

\* a step that is a call of load_model on a loaded manager returns True and
\* leaves the model and the number of models made as they were
LoadOfLoadedKeepsModel ==
    (Loaded /\ pc' = "load_model")
        => (raised' = "" /\ returned' = "True" /\ llm' = llm /\ models_created' = models_created)

\* C29: after any sequence of load_model, unload_model and generate_response
\* calls _model_loaded is true exactly when llm is not None; a load_model
\* that raised leaves the manager unloaded, a load_model on a loaded manager
\* returns True without making a new model, and unload_model always leaves
\* the manager unloaded
C29_LoadedFlagAgreesWithModel ==
    /\ [](model_loaded <=> llm # None)
    /\ []((pc = "load_model" /\ raised # "") => Unloaded)
    /\ []((pc = "load_model" /\ raised = "") => Loaded)
    /\ []((pc = "unload_model") => Unloaded)
    /\ [][LoadOfLoadedKeepsModel]_vars

\* a second model was loaded after the first was unloaded, and a load_model
\* on the loaded manager has returned
C29_Witness ==
    /\ pc = "load_model"
    /\ raised = ""
    /\ models_created = 2
    /\ llm = LlamaModel(2)
    /\ model_loaded

---------------------------------------------------------------------------
(* LLMManager.query_logs: the prompt is made and generate_response called, *)
(* and both once more with fewer events after a context overflow.          *)

\* what format_log_prompt does for query_logs: it raises (AttributeError)
\* or returns the prompt
PromptFor(size, question, data, reduced, loss) ==
    IF FormatLogPromptRaised(data) THEN [raised |-> "AttributeError", final_prompt |-> ""]
    ELSE [raised |-> "", final_prompt |-> FormatLogPrompt(size, question, data, reduced, loss).final_prompt]

\* a call of generate_response made by query_logs: the prompt it was given,
\* the use_reduced_events the prompt was made with, the exception it raised
GenerateCall(made_prompt, reduced, exception) ==
    [prompt |-> made_prompt.final_prompt, use_reduced_events |-> reduced, raised |-> exception]

\* how query_logs ends: as a call ends, with the calls of generate_response made
QueryEnded(self, exception, value, calls) ==
    [self |-> self, raised |-> exception, returned |-> value, generate_calls |-> calls]

\* a faulty handler, which retries after any error of the first attempt
RetriedAfterAnyError(exception) == exception # ""

\* the exceptions of the first attempt that the retrying handler catches
RetriedAfter(exception) == exception = "ContextOverflowError"

\* a faulty handler, which lets the overflow of the retry through
RaisedAsIs(exception) == exception

\* what query_logs raises when the retry raised: a new LlamaModelError for
\* an overflow, the exception itself otherwise
RaisedAfterRetry(exception) ==
    IF exception = "ContextOverflowError" THEN "LlamaModelError" ELSE exception

\* query_logs(query, log_data), full_prompt and reduced_prompt being what
\* format_log_prompt does with use_reduced_events False and True; the
\* response of the pair returned is the value, the time is left out
QueryLogs(self, full_prompt, reduced_prompt, env, inference, retry_inference) ==
    IF full_prompt.raised # "" THEN QueryEnded(self, full_prompt.raised, "", <<>>)
    ELSE LET first == GenerateResponse(self, env, inference)
             first_call == GenerateCall(full_prompt, FALSE, first.raised)
         IN IF first.raised = "" THEN QueryEnded(first.self, "", first.returned, <<first_call>>)
            ELSE IF ~RetriedAfter(first.raised)
            THEN QueryEnded(first.self, first.raised, "", <<first_call>>)
            ELSE IF reduced_prompt.raised # ""
            THEN QueryEnded(first.self, reduced_prompt.raised, "", <<first_call>>)
            ELSE LET retry == GenerateResponse(first.self, env, retry_inference)
                     retry_call == GenerateCall(reduced_prompt, TRUE, retry.raised)
                 IN IF retry.raised = ""
                    THEN QueryEnded(retry.self, "", retry.returned, <<first_call, retry_call>>)
                    ELSE QueryEnded(retry.self, RaisedAfterRetry(retry.raised), "",
                                    <<first_call, retry_call>>)

\* the logs a query is made about: none, a few events, more events than a
\* retry selects, and a document format_log_prompt raises on
QueryLogsPool ==
    {CollectedLogs(Absent, Absent),
     CollectedLogs(FullSystemInfoOfHost,
                   EventsDict(ListVal(SystemEvents(2)), ListVal(ApplicationEvents(1)), Absent)),
     CollectedLogs(Absent,
                   EventsDict(ListVal(SystemEvents(MaxErrors)), ListVal(ApplicationEvents(4)), Absent)),
     CollectedLogs(None, NoEvents)}

\* the environments of a query: no model file or both, and a constructor
\* that raises or returns
QueryEnvironments ==
    {env \in LoadEnvironments :
        env.importable /\ env.existing \in {{}, {GivenPath, CommonPath}}}

\* the inferences of a query: a completion, an overflow, another failure
QueryInferences ==
    {Completion("The disk reports bad blocks."), NoChoices,
     Failure("Requested tokens (2100) exceed context window of 2048"),
     Failure("CUDA out of memory")}

InitQuery ==
    /\ pc = "created"
    /\ \/ /\ model_path \in {"", GivenPath}
          /\ llm = None
          /\ model_loaded = FALSE
          /\ models_created = 0
       \/ /\ model_path = CommonPath
          /\ llm = LlamaModel(1)
          /\ model_loaded = TRUE
          /\ models_created = 1
    /\ raised = ""
    /\ returned = ""
    /\ generate_calls = <<>>
    /\ context_size \in {SmallContext + ContextStep, 2048}
    /\ query \in {"", "critical"}
    /\ prompt_log_data \in QueryLogsPool
    /\ use_reduced_events = FALSE
    /\ formatted_event_strings = <<>>
    /\ max_event_chars = 0
    /\ current_event_chars = 0
    /\ events_omitted = FALSE
    /\ final_prompt = ""
    /\ NormalizeIdle /\ AggregateIdle /\ SummaryIdle /\ PipelineIdle /\ FileIdle
    /\ RepeatIdle /\ CliIdle

\* the float loss of max_event_chars is that of the fixed parts, which are
\* the same in both attempts
QueryLosses ==
    IF FormatLogPromptRaised(prompt_log_data) THEN {0}
    ELSE FloatLosses(context_size, FixedPartsLen(prompt_log_data, query))

QueryLogsCall ==
    /\ pc = "created"
    /\ \E loss \in QueryLosses :
          LET full_prompt == PromptFor(context_size, query, prompt_log_data, FALSE, loss)
              reduced_prompt == PromptFor(context_size, query, prompt_log_data, TRUE, loss)
          IN \E env \in QueryEnvironments, inference \in QueryInferences, retry_inference \in QueryInferences :
                LET end == QueryLogs(Self, full_prompt, reduced_prompt, env, inference, retry_inference)
                IN CallEnds(end) /\ generate_calls' = end.generate_calls
    /\ pc' = "query_logs"
    /\ UNCHANGED <<normalize_vars, aggregate_vars, summary_vars, pipeline_vars,
                   file_vars, repeat_vars, prompt_vars, cli_vars>>

NextQuery == QueryLogsCall

SpecQuery == InitQuery /\ [][NextQuery]_vars

---------------------------------------------------------------------------
(* Properties of query_logs, stated on the calls of generate_response it made *)

QueryEnds == pc = "query_logs"

\* the prompt format_log_prompt makes for the query with fewer events
IsReducedPrompt(text) ==
    \E loss \in QueryLosses :
        text = FormatLogPrompt(context_size, query, prompt_log_data, TRUE, loss).final_prompt

\* C23: per call of query_logs generate_response is called at most twice;
\* the second call is made only after the first raised ContextOverflowError,
\* and its prompt is the one made with use_reduced_events=True; any other
\* LlamaModelError of the first call is raised again without a retry
C23_OneRetryWithFewerEvents ==
    QueryEnds =>
        /\ Len(generate_calls) <= 2
        /\ Len(generate_calls) = 2 =>
              /\ ~generate_calls[1].use_reduced_events
              /\ generate_calls[1].raised = "ContextOverflowError"
              /\ generate_calls[2].use_reduced_events
              /\ IsReducedPrompt(generate_calls[2].prompt)
        /\ Len(generate_calls) = 1 =>
              /\ ~generate_calls[1].use_reduced_events
              /\ generate_calls[1].raised # "ContextOverflowError"
              /\ raised = generate_calls[1].raised

\* the first call overflowed and the retry, with a shorter prompt, succeeded
C23_Witness ==
    /\ QueryEnds
    /\ Len(generate_calls) = 2
    /\ Len(generate_calls[2].prompt) < Len(generate_calls[1].prompt)
    /\ raised = ""
    /\ returned # ""

\* C24: when the retry overflows too, query_logs raises a LlamaModelError
\* that is no ContextOverflowError and returns nothing; it returns a
\* response only when the last call of generate_response it made succeeded
C24_SecondOverflowIsModelError ==
    QueryEnds =>
        /\ (Len(generate_calls) = 2 /\ generate_calls[Len(generate_calls)].raised = "ContextOverflowError")
              => (raised = "LlamaModelError" /\ returned = "")
        /\ raised = "" =>
              (generate_calls # <<>> /\ generate_calls[Len(generate_calls)].raised = "")
        /\ raised # "" => returned = ""

\* both attempts overflowed
C24_Witness ==
    /\ QueryEnds
    /\ Len(generate_calls) = 2
    /\ generate_calls[1].raised = "ContextOverflowError"
    /\ generate_calls[2].raised = "ContextOverflowError"
    /\ raised = "LlamaModelError"

----------------------------------------------------------------------------
(* AnimusCLI: the log file, Q&A mode and the interactive command loop *)

DefaultOutputPath == "animus_logs.json"
OtherPath == "other.json"
FileNames == {DefaultOutputPath, OtherPath}

\* what a log file holds: nothing, text that is no JSON, a JSON value that is
\* no dictionary, a dictionary without "Events", the collector's document
JsonContents == {"list", "no Events", "good"}
WrittenContents == {"empty", "corrupt"} \cup JsonContents
Missing == [content |-> "missing", old |-> FALSE]
FileHolding(content, old) == [content |-> content, old |-> old]

FileAt(fs, name) == IF name \in DOMAIN fs THEN fs[name] ELSE Missing
\* os.path.exists
Exists(fs, name) == FileAt(fs, name).content # "missing"

\* json.loads of the file's text
RawData(content) == [t |-> IF content = "list" THEN "list" ELSE "dict"]
\* LogParser.parse_file: a LogCollection for a dictionary, None otherwise
Parses(content) == content \in {"no Events", "good"}
LogCollection(name) == [t |-> "LogCollection", file |-> name]

\* AnimusCLI(auto_collect, force_collect)
NewCli(auto, force) ==
    [running |-> FALSE, log_file |-> DefaultOutputPath, logs_loaded |-> FALSE,
     log_data |-> None, logs |-> None, auto_collect |-> auto, force_collect |-> force,
     in_qa_mode |-> FALSE, qa_context |-> <<>>]

\* the AnimusCLI of the state
CliOf ==
    [running |-> running, log_file |-> log_file, logs_loaded |-> logs_loaded,
     log_data |-> cli_log_data, logs |-> self_logs, auto_collect |-> auto_collect,
     force_collect |-> force_collect, in_qa_mode |-> in_qa_mode, qa_context |-> qa_context]

\* load_logs(filename), "" for None: the object afterwards; the call returns
\* its logs_loaded
LoadLogs(self, fs, filename) ==
    LET named == IF filename # "" THEN [self EXCEPT !.log_file = filename] ELSE self
        content == FileAt(fs, named.log_file).content
        read == [named EXCEPT !.log_data = RawData(content)]
    IN IF content \notin JsonContents THEN [named EXCEPT !.logs_loaded = FALSE]
       ELSE IF ~Parses(content) THEN [read EXCEPT !.logs_loaded = FALSE]
       ELSE [read EXCEPT !.logs = LogCollection(named.log_file), !.logs_loaded = TRUE]

\* check_log_loaded: the object afterwards; the call returns its logs_loaded
CheckLogLoaded(self, fs) ==
    IF self.logs_loaded THEN self
    ELSE IF Exists(fs, self.log_file) THEN LoadLogs(self, fs, self.log_file)
    ELSE self

\* should_collect_logs
ShouldCollectLogs(self, fs) ==
    IF self.force_collect THEN TRUE
    ELSE IF ~self.auto_collect THEN FALSE
    ELSE IF ~Exists(fs, self.log_file) THEN TRUE
    ELSE IF FileAt(fs, self.log_file).old THEN TRUE
    ELSE FileAt(fs, self.log_file).content # "good"

\* check_log_freshness
CheckLogFreshness(fs, log_file_path) ==
    Exists(fs, log_file_path) /\ ~FileAt(fs, log_file_path).old

\* how a run of the collector script goes: whether it ends well, and what it
\* writes to the output file
CollectOutcome(ran, written) == [ran |-> ran, written |-> written]
CollectOutcomes ==
    {CollectOutcome(TRUE, "good"), CollectOutcome(TRUE, "list"), CollectOutcome(TRUE, "nothing"),
     CollectOutcome(FALSE, "corrupt"), CollectOutcome(FALSE, "nothing")}

\* collect_logs: the files afterwards and the value returned
CollectLogs(fs, output_path, outcome) ==
    LET after == IF outcome.written = "nothing" THEN fs
                 ELSE [fs EXCEPT ![output_path] = FileHolding(outcome.written, FALSE)]
    IN [files |-> after,
        success |-> outcome.ran /\ FileAt(after, output_path).content \in JsonContents]

\* handle_collect_command: its arguments reach the collector only
HandleCollectCommand(self, fs, outcome) ==
    LET collected == CollectLogs(fs, self.log_file, outcome)
    IN [self |-> IF collected.success THEN LoadLogs(self, collected.files, "") ELSE self,
        files |-> collected.files]

\* show_status: it loads the file when no logs are loaded
ShowStatus(self, fs) == CheckLogLoaded(self, fs)

\* start_qa_mode
StartQaMode(self, fs) ==
    LET checked == CheckLogLoaded(self, fs)
    IN IF ~checked.logs_loaded THEN checked
       ELSE [checked EXCEPT !.in_qa_mode = TRUE, !.qa_context = <<>>]

\* an entry of qa_context, by its role: the text it holds is not followed
ContextEntry(role) == [role |-> role]

\* handle_query; process_query returns an answer or raises
HandleQuery(self, fs, question, add_to_context, answered) ==
    LET checked == CheckLogLoaded(self, fs)
        asked == IF add_to_context
                 THEN [checked EXCEPT !.qa_context = Append(@, ContextEntry("user"))]
                 ELSE checked
    IN IF ~checked.logs_loaded THEN checked
       ELSE IF ~answered THEN asked
       ELSE IF asked.in_qa_mode
            THEN [asked EXCEPT !.qa_context = Append(@, ContextEntry("assistant"))]
       ELSE asked

\* command_loop up to the first prompt
CommandLoopStart(self, fs, outcome) ==
    LET started == [self EXCEPT !.running = TRUE]
    IN IF ShouldCollectLogs(started, fs) THEN HandleCollectCommand(started, fs, outcome)
       ELSE IF Exists(fs, started.log_file) /\ ~started.logs_loaded
            THEN [self |-> LoadLogs(started, fs, ""), files |-> fs]
       ELSE [self |-> started, files |-> fs]

\* the handler an iteration of the loop calls
Call(method, argument, add_to_context) ==
    [method |-> method, argument |-> argument, add_to_context |-> add_to_context]
NoCall == Call("", "", FALSE)

\* the inputs that leave Q&A mode
QaExitWordsOfCommands == {"exit", "quit"}
QaExitWords == {"exit", "quit", "back", "end"}
\* the commands that end the loop
ExitCommands == {"exit", "quit"}

\* the lines typed
InputLines ==
    {"", "exit", " Quit ", "back", "END", "exit now", "qa", "help", "status", "collect",
     "load", "load other.json", "ask", "ask what failed", "what failed", "say 'hi"}

QuoteChars == {"'", "\""}
\* shlex.split raises ValueError: a quotation is left open (of the inputs
\* here, those with an odd number of quotation marks)
ShlexRaises(s) ==
    Cardinality({i \in 1..Len(s) : SubSeq(s, i, i) \in QuoteChars}) % 2 = 1
\* shlex.split of an input without quotation marks or backslashes
ShlexSplit(s) == Words(s)

\* of each line typed: input().strip(), its lower case, whether shlex.split
\* raises, the parts it gives, parts[0].lower() and ' '.join(args)
Stripped == [line \in InputLines |-> StrStrip(line)]
Lowered == [line \in InputLines |-> LowerText(Stripped[line])]
Unbalanced == [line \in InputLines |-> ShlexRaises(Stripped[line])]
Parts == [line \in InputLines |-> ShlexSplit(Stripped[line])]
Command == [line \in InputLines |-> IF Parts[line] = <<>> THEN "" ELSE LowerText(Parts[line][1])]
Question == [line \in InputLines |-> IF Parts[line] = <<>> THEN "" ELSE Join(Tail(Parts[line]), " ")]

Handled(self, fs, call) == [self |-> self, files |-> fs, called |-> call]

\* one iteration of the loop for a line read: the object and the files
\* afterwards, and the handler called
Iteration(self, fs, line, outcome, answered) ==
    LET user_input == Stripped[line]
        command == Command[line]
        args == Tail(Parts[line])
        question == Question[line]
        collected == HandleCollectCommand(self, fs, outcome)
    IN IF user_input = "" THEN Handled(self, fs, NoCall)
       ELSE IF self.in_qa_mode
       THEN IF Lowered[line] \in QaExitWords
            THEN Handled([self EXCEPT !.in_qa_mode = FALSE], fs, NoCall)
            ELSE Handled(HandleQuery(self, fs, user_input, TRUE, answered), fs,
                         Call("handle_query", user_input, TRUE))
       ELSE IF Unbalanced[line] THEN Handled(self, fs, NoCall)
       ELSE IF command \in ExitCommands
       THEN Handled([self EXCEPT !.running = FALSE], fs, NoCall)
       ELSE IF command = "help" THEN Handled(self, fs, Call("print_help", "", FALSE))
       ELSE IF command = "collect"
       THEN Handled(collected.self, collected.files, Call("handle_collect_command", question, FALSE))
       ELSE IF command = "load"
       THEN LET filename == IF args # <<>> THEN args[1] ELSE self.log_file
            IN Handled(LoadLogs(self, fs, filename), fs, Call("load_logs", filename, FALSE))
       ELSE IF command = "status" THEN Handled(ShowStatus(self, fs), fs, Call("show_status", "", FALSE))
       ELSE IF command = "ask"
       THEN IF question # ""
            THEN Handled(HandleQuery(self, fs, question, FALSE, answered), fs,
                         Call("handle_query", question, FALSE))
            ELSE Handled(self, fs, NoCall)
       ELSE IF command = "qa"
       THEN Handled(StartQaMode(self, fs), fs, Call("start_qa_mode", "", FALSE))
       ELSE Handled(HandleQuery(self, fs, user_input, FALSE, answered), fs,
                    Call("handle_query", user_input, FALSE))

\* what input() gives
Line(text) == [event |-> "line", text |-> text]
KeyboardInterrupt == [event |-> "KeyboardInterrupt", text |-> ""]
EOFError == [event |-> "EOFError", text |-> ""]

\* the most entries of qa_context followed
MaxQaContext == 2

\* the files at the start
StartFiles ==
    {[name \in FileNames |-> IF name = DefaultOutputPath THEN main ELSE other] :
        main \in {Missing, FileHolding("good", TRUE)} \cup {FileHolding(c, FALSE) : c \in WrittenContents},
        other \in {FileHolding("good", FALSE)}}

InitCli ==
    /\ pc = "start"
    /\ files \in StartFiles
    /\ running = FALSE
    /\ log_file = ""
    /\ logs_loaded = FALSE
    /\ cli_log_data = None
    /\ self_logs = None
    /\ auto_collect = FALSE
    /\ force_collect = FALSE
    /\ in_qa_mode = FALSE
    /\ qa_context = <<>>
    /\ console = None
    /\ called = None
    /\ NormalizeIdle /\ AggregateIdle /\ SummaryIdle /\ PipelineIdle /\ FileIdle
    /\ RepeatIdle /\ ManagerIdle /\ PromptIdle

\* the object's attributes become those of self
CliBecomes(self) ==
    /\ running' = self.running
    /\ log_file' = self.log_file
    /\ logs_loaded' = self.logs_loaded
    /\ cli_log_data' = self.log_data
    /\ self_logs' = self.logs
    /\ auto_collect' = self.auto_collect
    /\ force_collect' = self.force_collect
    /\ in_qa_mode' = self.in_qa_mode
    /\ qa_context' = self.qa_context

other_vars == <<normalize_vars, aggregate_vars, summary_vars, pipeline_vars, file_vars,
                repeat_vars, manager_vars, prompt_vars>>

\* main() in interactive mode: the object is created, given the output path,
\* and command_loop runs up to its first prompt
MainInteractive ==
    /\ pc = "start"
    /\ \E auto \in BOOLEAN, force \in BOOLEAN, outcome \in CollectOutcomes :
         LET cli == [NewCli(auto, force) EXCEPT !.log_file = DefaultOutputPath]
             started == CommandLoopStart(cli, files, outcome)
         IN /\ CliBecomes(started.self)
            /\ files' = started.files
    /\ pc' = "input"
    /\ UNCHANGED <<console, called, other_vars>>

\* analyze_logs without a query: up to its return or, with the loop entered,
\* up to the first prompt
AnalyzeLogs ==
    /\ pc = "start"
    /\ \E auto \in BOOLEAN, force \in BOOLEAN, qa_mode \in BOOLEAN :
       \E first \in CollectOutcomes, outcome \in CollectOutcomes :
         LET log_file_path == DefaultOutputPath
             collects == force \/ (auto /\ ~CheckLogFreshness(files, log_file_path))
             fs == IF collects THEN CollectLogs(files, log_file_path, first).files ELSE files
             cli == [NewCli(auto, force) EXCEPT !.log_file = log_file_path]
             loaded == LoadLogs(cli, fs, "")
             entered == IF qa_mode THEN StartQaMode(loaded, fs) ELSE loaded
             started == CommandLoopStart(entered, fs, outcome)
         IN IF ~Exists(fs, log_file_path)
            THEN /\ pc' = "returned"
                 /\ files' = fs
                 /\ UNCHANGED <<running, log_file, logs_loaded, cli_log_data, self_logs,
                                auto_collect, force_collect, in_qa_mode, qa_context>>
            ELSE IF ~loaded.logs_loaded
            THEN /\ pc' = "returned"
                 /\ files' = fs
                 /\ CliBecomes(loaded)
            ELSE /\ pc' = "input"
                 /\ files' = started.files
                 /\ CliBecomes(started.self)
    /\ UNCHANGED <<console, called, other_vars>>

\* an iteration of the loop in which input() returns a line
InputLine ==
    /\ pc = "input"
    /\ \E line \in InputLines :
       LET method == Iteration(CliOf, files, line, CollectOutcome(FALSE, "nothing"), TRUE).called.method
       IN
       \E outcome \in IF method = "handle_collect_command" THEN CollectOutcomes ELSE {CollectOutcome(FALSE, "nothing")} :
       \E answered \in IF method = "handle_query" THEN BOOLEAN ELSE {TRUE} :
         LET handled == Iteration(CliOf, files, line, outcome, answered)
         IN /\ Len(handled.self.qa_context) <= MaxQaContext
            /\ CliBecomes(handled.self)
            /\ files' = handled.files
            /\ called' = handled.called
            /\ console' = Line(line)
            /\ pc' = IF handled.self.running THEN "input" ELSE "stopped"
    /\ UNCHANGED other_vars

\* an iteration in which input() raises KeyboardInterrupt
InterruptAtPrompt ==
    /\ pc = "input"
    /\ console' = KeyboardInterrupt
    /\ called' = NoCall
    /\ in_qa_mode' = FALSE
    /\ pc' = "input"
    /\ UNCHANGED <<files, running, log_file, logs_loaded, cli_log_data, self_logs,
                   auto_collect, force_collect, qa_context, other_vars>>

\* an iteration in which input() raises EOFError
EndOfInput ==
    /\ pc = "input"
    /\ console' = EOFError
    /\ called' = NoCall
    /\ running' = FALSE
    /\ pc' = "stopped"
    /\ UNCHANGED <<files, log_file, logs_loaded, cli_log_data, self_logs,
                   auto_collect, force_collect, in_qa_mode, qa_context, other_vars>>

NextCli == MainInteractive \/ AnalyzeLogs \/ InputLine \/ InterruptAtPrompt \/ EndOfInput

SpecCli == InitCli /\ [][NextCli]_vars

----------------------------------------------------------------------------
(* The command loop and Q&A mode: claims *)

\* the loop waits at its prompt
AtPrompt == pc = "input"

\* the step left Q&A mode without calling a handler, and the loop goes on
QaLeft == ~in_qa_mode' /\ running' /\ pc' = "input" /\ called' = NoCall

\* the step passed the text to handle_query as a Q&A question and ran no
\* command: no file was written, no other file chosen, Q&A mode goes on
HandledAsQuestion(text) ==
    /\ called' = Call("handle_query", text, TRUE)
    /\ in_qa_mode' /\ running' /\ pc' = "input"
    /\ files' = files /\ log_file' = log_file

\* the step ended the loop
LoopStopped == ~running' /\ pc' = "stopped"

\* what a step from the prompt does, by the mode and by what input() gave
LoopStep ==
    AtPrompt =>
        LET event == console'.event
            text == StrStrip(console'.text)
            word == LowerText(text)
            first == IF Words(text) = <<>> THEN "" ELSE LowerText(Words(text)[1])
        IN /\ (in_qa_mode /\ event = "KeyboardInterrupt") => QaLeft
           /\ (in_qa_mode /\ event = "line" /\ word \in {"exit", "quit", "back", "end"}) => QaLeft
           /\ (in_qa_mode /\ event = "line" /\ text # "" /\ word \notin {"exit", "quit", "back", "end"})
                  => HandledAsQuestion(text)
           /\ (~in_qa_mode /\ event = "line" /\ word \in {"exit", "quit"}) => LoopStopped
           /\ (event = "EOFError") => LoopStopped
           /\ (pc' # "input") =>
                  /\ LoopStopped
                  /\ \/ event = "EOFError"
                     \/ ~in_qa_mode /\ event = "line" /\ first \in {"exit", "quit"}

\* C25: in Q&A mode exit, quit, back and end (and a keyboard interrupt) leave
\* Q&A mode and keep the loop running, and every other non-empty input is
\* handled as a question, never as a command; outside Q&A mode exit and quit
\* stop the loop; end-of-input stops it in either mode; nothing else stops it
C25_LoopInputs == [][LoopStep]_vars

\* "back" has just been typed in Q&A mode: the mode is left, the loop goes on
C25_Witness ==
    /\ pc = "input"
    /\ console = Line("back")
    /\ called = NoCall
    /\ ~in_qa_mode
    /\ running

\* C30: whenever the AnimusCLI is in Q&A mode its logs are loaded: logs_loaded
\* is true and logs is not None
C30_QaModeHasLogsLoaded == in_qa_mode => (logs_loaded /\ self_logs # None)

====
